---------------------------- MODULE Spec2Model ----------------------------
(***************************************************************************)
(* Trust & discovery core of the skill registry: exact-token text          *)
(* matching, the widening search resolver, the reserved-slug ledger and    *)
(* the HTTP rate limiter.  Each subsystem has its own specification over   *)
(* its own variables; the variables of the other subsystems stay at their  *)
(* initial values.                                                         *)
(*                                                                         *)
(* Strings whose characters matter (queries, display names, slugs) are     *)
(* sequences of one-character strings, so that lowercasing, trimming and   *)
(* tokenizing are computed character by character.                         *)
(***************************************************************************)
EXTENDS Integers, Sequences, FiniteSets, TLC

VARIABLES
    \* ---- searchText: one call of tokenize + matchesExactTokens
    tquery,         \* the query string handed to tokenize
    tparts,         \* the parts handed to matchesExactTokens (strings or Null)
    ttokens,        \* tokenize(tquery)
    tresult,        \* matchesExactTokens(ttokens, tparts)
    tpc,            \* "start" | "tokenized" | "done"
    \* ---- search.ts: one call of searchSkills / searchSouls
    store,          \* the embedding table, as blocks of equal embeddings
    args,           \* the action's arguments
    spc,            \* "start" | "embed" | "loop" | "return" | "done"
    queryTokens,    \* tokenize(query)
    limit,          \* args.limit ?? 10
    maxCandidate,
    candidateLimit,
    scoreById,      \* the last round's results: <<[_id, _score]>>
    exactMatches,   \* the last round's confirmed entries
    returned,       \* the action's return value
    embedCalls,     \* calls of generateEmbedding so far
    searchCalls,    \* calls of ctx.vectorSearch so far (saturating)
    windows,        \* the candidate window of each vectorSearch call so far
    \* ---- reservedSlugs.ts: the reserved-slug ledger
    reservedSlugs,  \* the reservedSlugs table; a record's _id is its position
    ledgerOut,      \* the last ledger call and how it ended
    \* ---- httpRateLimit.ts: the rate limiter
    now,            \* Date.now()
    rateLimits,     \* the rateLimits table: per scope key, [windowStart, count]
    calls,          \* per caller, its checkRateLimit call
    requests,       \* per client, its applyRateLimit request
    granted,        \* per scope key, the calls allowed in the window last consumed in
    served,         \* per ip, the requests answered in the window last answered in
    \* ---- httpRateLimit.ts: the client address of a request
    reqHeaders,     \* the address headers of the request being handled
    trustEnv,       \* process.env.TRUST_FORWARDED_IPS
    \* ---- maintenance.ts: the tables the maintenance jobs read and write
    skills,         \* the skills table: per skill id, its document
    skillVersions,  \* the skillVersions table: per version id, its document
    skillVersionFingerprints,   \* the skillVersionFingerprints table
    skillBadges,    \* the skillBadges table, in creation order
    auditLogs,      \* the auditLogs table, in creation order
    users,          \* the users table: per user id, its document
    sweeps,         \* per running job, its loop state
    dbOut,          \* the last mutation called directly and its result
    \* ---- skills.ts: reclaimSlugInternal
    skillEmbeddings,    \* the skillEmbeddings table, in creation order
    scheduled,      \* the jobs handed to scheduler.runAfter
    reclaimOut,     \* the last reclaimSlugInternal call and its result
    \* ---- packages/clawdhub/src/http.ts: the CLI's request helpers
    cli,            \* the call of a request helper in progress and its attempts
    \* ---- httpApiV1: one request to a v1 handler
    api,            \* the request being handled and the calls the handler made
    \* ---- lib/batching.ts: a chain of self-rescheduling batch invocations
    batch,          \* the table scanned, the scheduler's queue, the invocations made
    \* ---- lib/skillQuality.ts: evaluateQuality
    quality         \* the clock and the evaluations made so far

textVars == <<tquery, tparts, ttokens, tresult, tpc>>
searchVars == <<store, args, spc, queryTokens, limit, maxCandidate, candidateLimit,
                scoreById, exactMatches, returned, embedCalls, searchCalls, windows>>
ledgerVars == <<reservedSlugs, ledgerOut>>
rateVars == <<now, rateLimits, calls, requests, granted, served>>
httpVars == <<reqHeaders, trustEnv>>
maintVars == <<skills, skillVersions, skillVersionFingerprints, skillBadges, auditLogs,
               users, sweeps, dbOut>>
reclaimVars == <<skillEmbeddings, scheduled, reclaimOut>>
cliVars == <<cli>>
apiVars == <<api>>
batchVars == <<batch>>
qualityVars == <<quality>>
vars == <<textVars, searchVars, ledgerVars, rateVars, httpVars, maintVars,
    reclaimVars, cliVars, apiVars, batchVars, qualityVars>>
notTextVars == <<searchVars, ledgerVars, rateVars, httpVars, maintVars,
    reclaimVars, cliVars, apiVars, batchVars, qualityVars>>
notSearchVars == <<textVars, ledgerVars, rateVars, httpVars, maintVars,
    reclaimVars, cliVars, apiVars, batchVars, qualityVars>>
notLedgerVars == <<textVars, searchVars, rateVars, httpVars, maintVars,
    reclaimVars, cliVars, apiVars, batchVars, qualityVars>>
notRateVars == <<textVars, searchVars, ledgerVars, httpVars, maintVars,
    reclaimVars, cliVars, apiVars, batchVars, qualityVars>>
notRateHttpVars == <<textVars, searchVars, ledgerVars, maintVars,
    reclaimVars, cliVars, apiVars, batchVars, qualityVars>>
notMaintVars == <<textVars, searchVars, ledgerVars, rateVars, httpVars,
    reclaimVars, cliVars, apiVars, batchVars, qualityVars>>

\* null / undefined where a string (a character sequence) is expected
Null == <<"null">>
\* null where a document id is expected
NullId == "null"
\* undefined where a number is expected (args.limit omitted)
Undefined == -1

Min(a, b) == IF a < b THEN a ELSE b
Max(a, b) == IF a > b THEN a ELSE b

(***************************************************************************)
(* convex/lib/searchText.ts                                                *)
(***************************************************************************)
UpperChars == <<"A","B","C","D","E","F","G","H","I","J","K","L","M",
                "N","O","P","Q","R","S","T","U","V","W","X","Y","Z">>
LowerChars == <<"a","b","c","d","e","f","g","h","i","j","k","l","m",
                "n","o","p","q","r","s","t","u","v","w","x","y","z">>
DigitChars == <<"0","1","2","3","4","5","6","7","8","9">>
Range(s) == {s[i] : i \in DOMAIN s}

\* String.prototype.toLowerCase on one character
ToLowerCase(c) ==
    IF \E i \in DOMAIN UpperChars : UpperChars[i] = c
    THEN LowerChars[CHOOSE i \in DOMAIN UpperChars : UpperChars[i] = c]
    ELSE c

\* WORD_RE = /[a-z0-9]+/g : the characters of a word
WORD_RE == Range(LowerChars) \cup Range(DigitChars)

\* function normalize(value) { return value.toLowerCase() }
normalize(value) == [i \in DOMAIN value |-> ToLowerCase(value[i])]

\* value.match(WORD_RE): the maximal runs of word characters, left to right
RECURSIVE MatchWords(_, _, _, _)
MatchWords(s, i, cur, acc) ==
    IF i > Len(s)
    THEN IF cur = <<>> THEN acc ELSE Append(acc, cur)
    ELSE IF s[i] \in WORD_RE
         THEN MatchWords(s, i + 1, Append(cur, s[i]), acc)
         ELSE MatchWords(s, i + 1, <<>>, IF cur = <<>> THEN acc ELSE Append(acc, cur))

\* export function tokenize(value: string): string[]
tokenize(value) ==
    IF value = <<>> THEN <<>> ELSE MatchWords(normalize(value), 1, <<>>, <<>>)

WhiteSpace == {" "}

\* String.prototype.trim
RECURSIVE TrimStart(_)
TrimStart(s) ==
    IF s # <<>> /\ Head(s) \in WhiteSpace THEN TrimStart(Tail(s)) ELSE s
RECURSIVE TrimEnd(_)
TrimEnd(s) ==
    IF s # <<>> /\ s[Len(s)] \in WhiteSpace THEN TrimEnd(SubSeq(s, 1, Len(s) - 1)) ELSE s
Trim(s) == TrimEnd(TrimStart(s))

\* Boolean(part?.trim())
NonBlank(part) == part # Null /\ Trim(part) # <<>>

\* Array.prototype.join(' ')
RECURSIVE JoinSpace(_)
JoinSpace(ps) ==
    IF ps = <<>> THEN <<>>
    ELSE IF Len(ps) = 1 THEN ps[1]
    ELSE ps[1] \o <<" ">> \o JoinSpace(Tail(ps))

\* Mutant: a query token matches when it is a prefix of some text token
matchesExactTokens_Prefix(qTokens, parts) ==
    IF qTokens = <<>> THEN FALSE
    ELSE LET text == JoinSpace(SelectSeq(parts, NonBlank))
             textTokens == tokenize(text)
         IN  /\ text # <<>>
             /\ textTokens # <<>>
             /\ \A i \in DOMAIN qTokens :
                   \E j \in DOMAIN textTokens :
                      /\ Len(qTokens[i]) <= Len(textTokens[j])
                      /\ SubSeq(textTokens[j], 1, Len(qTokens[i])) = qTokens[i]

\* export function matchesExactTokens(queryTokens, parts): boolean
matchesExactTokens(qTokens, parts) ==
    IF qTokens = <<>> THEN FALSE
    ELSE LET text == JoinSpace(SelectSeq(parts, NonBlank))
             textTokens == tokenize(text)
             textSet == Range(textTokens)
         IN  /\ text # <<>>
             /\ textTokens # <<>>
             /\ \A i \in DOMAIN qTokens : qTokens[i] \in textSet


(***************************************************************************)
(* Inputs of the searchText specification                                  *)
(***************************************************************************)
MaxQueryLen == 3
MaxPartLen == 2

TextAlphabet == {"a", "b", "A", " "}
StringsUpTo(n) == UNION {[1..k -> TextAlphabet] : k \in 0..n}

Str_remind_me == <<"r","e","m","i","n","d"," ","m","e">>
Str_RemindMe == <<"R","e","m","i","n","d"," ","M","e">>
Str_slug_remind_me == <<"r","e","m","i","n","d","-","m","e">>
Str_ReminderTool == <<"R","e","m","i","n","d","e","r"," ","T","o","o","l">>
Str_slug_reminder == <<"r","e","m","i","n","d","e","r">>
Str_ShortSummary == <<"S","h","o","r","t"," ","s","u","m","m","a","r","y">>

Parts_RemindMe == <<Str_RemindMe, Str_slug_remind_me, Str_ShortSummary>>
Parts_ReminderTool == <<Str_ReminderTool, Str_slug_reminder, Str_ShortSummary>>

TextQueries == StringsUpTo(MaxQueryLen) \cup {Str_remind_me}
SecondParts == {Null, <<"-">>, <<" ">>, <<"b">>}
TextParts ==
    {<<p1, p2>> : p1 \in StringsUpTo(MaxPartLen) \cup {Null}, p2 \in SecondParts}
    \cup {Parts_RemindMe, Parts_ReminderTool, <<<<" ", " ">>, Null, Null>>}

TextIdle ==
    /\ tquery = <<>>
    /\ tparts = <<>>
    /\ ttokens = <<>>
    /\ tresult = FALSE
    /\ tpc = "idle"

TextInit ==
    /\ tquery \in TextQueries
    /\ tparts \in TextParts
    /\ ttokens = <<>>
    /\ tresult = FALSE
    /\ tpc = "start"

\* const queryTokens = tokenize(query)
TokenizeQuery ==
    /\ tpc = "start"
    /\ ttokens' = tokenize(tquery)
    /\ tpc' = "tokenized"
    /\ UNCHANGED <<tquery, tparts, tresult>>
    /\ UNCHANGED notTextVars

\* matchesExactTokens(queryTokens, parts)
MatchParts ==
    /\ tpc = "tokenized"
    /\ tresult' = matchesExactTokens(ttokens, tparts)
    /\ tpc' = "done"
    /\ UNCHANGED <<tquery, tparts, ttokens>>
    /\ UNCHANGED notTextVars

TextNext == TokenizeQuery \/ MatchParts

(***************************************************************************)
(* convex/search.ts: the tables the search reads                           *)
(***************************************************************************)
\* skills (souls) table: the documents an embedding can point at
Skills ==
    [remindMe |->
        [displayName |-> Str_RemindMe, slug |-> Str_slug_remind_me,
         summary |-> Str_ShortSummary, batch |-> "highlighted", softDeletedAt |-> 0],
     reminderTool |->
        [displayName |-> Str_ReminderTool, slug |-> Str_slug_reminder,
         summary |-> Str_ShortSummary, batch |-> "highlighted", softDeletedAt |-> 0],
     remindMePlain |->
        [displayName |-> Str_RemindMe, slug |-> Str_slug_remind_me,
         summary |-> Null, batch |-> "none", softDeletedAt |-> 0],
     remindMeDeleted |->
        [displayName |-> Str_RemindMe, slug |-> Str_slug_remind_me,
         summary |-> Str_ShortSummary, batch |-> "highlighted", softDeletedAt |-> 1]]

SkillIds == DOMAIN Skills
SkillIdSeq == <<"remindMe", "reminderTool", "remindMePlain", "remindMeDeleted", NullId>>

\* what an embedding row can be: the skill it points at ("gone": the skill
\* document no longer exists) and its visibility
EmbeddingKinds ==
    { [skillId |-> "remindMe", visibility |-> "latest"],
      [skillId |-> "reminderTool", visibility |-> "latest-approved"],
      [skillId |-> "remindMePlain", visibility |-> "latest"],
      [skillId |-> "remindMeDeleted", visibility |-> "latest"],
      [skillId |-> "gone", visibility |-> "latest"],
      [skillId |-> "remindMe", visibility |-> "archived"] }

\* The embedding table is a sequence of blocks; block b holds store[b].len rows
\* of kind store[b].kind, all with similarity store[b].score to the query.
\* The k-th row of block b has the id b * BlockStride + k.
BlockStride == 1000
RowId(b, k) == b * BlockStride + k
RowBlock(id) == id \div BlockStride

\* ctx.db.get(embeddingId)
EmbeddingGet(st, id) ==
    [_id |-> id, skillId |-> st[RowBlock(id)].kind.skillId,
     visibility |-> st[RowBlock(id)].kind.visibility, score |-> st[RowBlock(id)].score]

\* Blocks by descending score, table order among equal scores
RECURSIVE BlocksByScore(_, _)
BlocksByScore(st, left) ==
    IF left = {} THEN <<>>
    ELSE LET best == CHOOSE b \in left :
                        \A c \in left : \/ st[b].score > st[c].score
                                        \/ st[b].score = st[c].score /\ b <= c
         IN  <<best>> \o BlocksByScore(st, left \ {best})

RECURSIVE RowsOfBlocks(_, _)
RowsOfBlocks(st, bs) ==
    IF bs = <<>> THEN <<>>
    ELSE LET b == Head(bs)
         IN  [k \in 1..st[b].len |-> [_id |-> RowId(b, k), _score |-> st[b].score]]
             \o RowsOfBlocks(st, Tail(bs))

\* filter: (q) => q.or(q.eq('visibility', 'latest'), q.eq('visibility', 'latest-approved'))
VisibleFilter(st, b) == st[b].kind.visibility \in {"latest", "latest-approved"}

\* ctx.vectorSearch('skillEmbeddings', 'by_embedding', {vector, limit, filter}):
\* the `window` nearest rows passing the filter, most similar first
vectorSearch(st, window) ==
    LET ranked == RowsOfBlocks(st, SelectSeq(BlocksByScore(st, DOMAIN st),
                                             LAMBDA b : VisibleFilter(st, b)))
    IN  SubSeq(ranked, 1, Min(window, Len(ranked)))

\* Mutant: hydration keeps the embeddings of soft-deleted skills
SkillSoftDeleted_Never(skillId) == FALSE

\* skill?.softDeletedAt of the skill an embedding points at
SkillSoftDeleted(skillId) == skillId \in SkillIds /\ Skills[skillId].softDeletedAt # 0

\* entries.push({ embeddingId, skill, version }); the skill is kept as its id
HydratedEntry(st, id) ==
    [embeddingId |-> id,
     skill |-> IF EmbeddingGet(st, id).skillId \in SkillIds
               THEN EmbeddingGet(st, id).skillId ELSE NullId]

Reverse(s) == [k \in DOMAIN s |-> s[Len(s) + 1 - k]]

\* Mutant: entries are collected in reverse order (unshift instead of push)
hydrateResults_Reversed(st, embeddingIds) ==
    LET kept == SelectSeq(embeddingIds,
                          LAMBDA id : ~SkillSoftDeleted(EmbeddingGet(st, id).skillId))
    IN  Reverse([k \in DOMAIN kept |-> HydratedEntry(st, kept[k])])

\* export const hydrateResults = internalQuery(...): one entry per embedding id,
\* in order, skipping the embeddings of soft-deleted skills
hydrateResults(st, embeddingIds) ==
    LET kept == SelectSeq(embeddingIds,
                          LAMBDA id : ~SkillSoftDeleted(EmbeddingGet(st, id).skillId))
    IN  [k \in DOMAIN kept |-> HydratedEntry(st, kept[k])]

(***************************************************************************)
(* convex/search.ts: searchSkills / searchSouls                            *)
(***************************************************************************)
DEFAULT_LIMIT == 10
CANDIDATE_FACTOR == 3
CANDIDATE_FLOOR == 50
MAX_CANDIDATE_FACTOR == 10
MAX_CANDIDATE_FLOOR == 200
MAX_CANDIDATE_CEILING == 1000

\* [entry.skill?.displayName, entry.skill?.slug, entry.skill?.summary]
EntryParts(entry) ==
    IF entry.skill = NullId THEN <<Null, Null, Null>>
    ELSE <<Skills[entry.skill].displayName, Skills[entry.skill].slug,
           Skills[entry.skill].summary>>

\* Mutant: only the trimmed query is tested, not its tokens
EarlyReturn_TrimOnly(query) == Trim(query) = <<>>

\* if (!query) return [] ... if (queryTokens.length === 0) return []
EarlyReturn(query) == Trim(query) = <<>> \/ tokenize(Trim(query)) = <<>>

\* const limit = args.limit ?? 10
LimitOf(a) == IF a.limit = Undefined THEN DEFAULT_LIMIT ELSE a.limit

\* const maxCandidate = Math.min(Math.max(limit * 10, 200), 1000)
MaxCandidateOf(lim) ==
    Min(Max(lim * MAX_CANDIDATE_FACTOR, MAX_CANDIDATE_FLOOR), MAX_CANDIDATE_CEILING)

\* Mutant: the first window ignores the floor of 50
InitialCandidateLimit_NoFloor(lim) == lim * CANDIDATE_FACTOR

\* let candidateLimit = Math.max(limit * 3, 50)
InitialCandidateLimit(lim) == Max(lim * CANDIDATE_FACTOR, CANDIDATE_FLOOR)

\* candidateLimit = Math.min(candidateLimit * 2, maxCandidate)
NextCandidateLimit(cand, maxCand) == Min(cand * 2, maxCand)

\* Mutant: highlightedOnly is ignored
HighlightFilter_Off(a, hydrated) == hydrated

\* const filtered = args.highlightedOnly ? hydrated.filter(batch === 'highlighted') : hydrated
HighlightFilter(a, hydrated) ==
    IF a.highlightedOnly
    THEN SelectSeq(hydrated, LAMBDA e : e.skill # NullId /\ Skills[e.skill].batch = "highlighted")
    ELSE hydrated

\* Mutant: the exact-token confirmation is skipped
ExactFilter_None(qTokens, filtered) == filtered

\* exactMatches = filtered.filter((entry) => matchesExactTokens(queryTokens, [...]))
\* the skills (or null) whose text fields hold every query token; the documents
\* with one skill id are equal, so the predicate is computed once per skill
MatchingSkills(qTokens) ==
    Range(SelectSeq(SkillIdSeq, LAMBDA id :
                       matchesExactTokens(qTokens, EntryParts([skill |-> id]))))
KeepMatching(matching, filtered) == SelectSeq(filtered, LAMBDA e : e.skill \in matching)
ExactFilter(qTokens, filtered) == KeepMatching(MatchingSkills(qTokens), filtered)

\* if (exactMatches.length >= limit || results.length < candidateLimit) break
ShouldBreak(nMatches, lim, nResults, cand) == nMatches >= lim \/ nResults < cand

\* scoreById.get(entry.embeddingId) ?? 0
ScoreGet(scores, id) ==
    LET hits == SelectSeq(scores, LAMBDA r : r._id = id)
    IN  IF hits = <<>> THEN 0 ELSE hits[1]._score

\* .map((entry) => ({ ...entry, score: scoreById.get(entry.embeddingId) ?? 0 }))
WithScore(scores, entry) ==
    [embeddingId |-> entry.embeddingId, skill |-> entry.skill,
     score |-> ScoreGet(scores, entry.embeddingId)]

\* return exactMatches.map(score).filter((entry) => entry.skill).slice(0, limit)
\* (the score is attached to the entries that survive the filter and the slice:
\*  map is elementwise, so the result is the same)
SearchReturn(matches, scores, lim) ==
    LET present == SelectSeq(matches, LAMBDA e : e.skill # NullId)
        sliced == SubSeq(present, 1, Min(lim, Len(present)))
    IN  [k \in DOMAIN sliced |-> WithScore(scores, sliced[k])]

\* ---- bounds of the search specification
SmallBlock == 1
MidBlock == 50
BigBlock == 100
MidLimit == 17
BigLimit == 334
\* searchCalls and windows stop growing after this many vectorSearch calls
MaxRounds == 4

BlockLens == {SmallBlock, MidBlock, BigBlock}
\* scores (in hundredths) of the two blocks: table order is not score order
ScorePairs == {<<95, 97>>}
LimitArgs == {Undefined, MidLimit, BigLimit}

Str_query_RemindMe == <<" ">> \o Str_RemindMe
SearchQueries == {Str_query_RemindMe, <<" ", " ">>, <<"!", "?">>}
\* searchSouls takes no highlightedOnly: its calls are those with highlightedOnly FALSE
SearchArgs ==
    {[query |-> q, limit |-> l, highlightedOnly |-> h] :
        q \in SearchQueries, l \in LimitArgs, h \in BOOLEAN}

SearchIdle ==
    /\ store = <<>>
    /\ args = [query |-> <<>>, limit |-> Undefined, highlightedOnly |-> FALSE]
    /\ spc = "idle"
    /\ queryTokens = <<>>
    /\ limit = 0
    /\ maxCandidate = 0
    /\ candidateLimit = 0
    /\ scoreById = <<>>
    /\ exactMatches = <<>>
    /\ returned = <<>>
    /\ embedCalls = 0
    /\ searchCalls = 0
    /\ windows = <<>>

SearchInit ==
    /\ \E k1 \in EmbeddingKinds, k2 \in EmbeddingKinds, n1 \in BlockLens, n2 \in BlockLens,
          sc \in ScorePairs :
          store = <<[kind |-> k1, len |-> n1, score |-> sc[1]],
                    [kind |-> k2, len |-> n2, score |-> sc[2]]>>
    /\ args \in SearchArgs
    /\ spc = "start"
    /\ queryTokens = <<>>
    /\ limit = 0
    /\ maxCandidate = 0
    /\ candidateLimit = 0
    /\ scoreById = <<>>
    /\ exactMatches = <<>>
    /\ returned = <<>>
    /\ embedCalls = 0
    /\ searchCalls = 0
    /\ windows = <<>>

\* lines 23-26: an empty query or a query without tokens returns [] at once
SearchEarlyReturn ==
    /\ spc = "start"
    /\ EarlyReturn(args.query)
    /\ returned' = <<>>
    /\ spc' = "done"
    /\ UNCHANGED <<store, args, queryTokens, limit, maxCandidate, candidateLimit,
                   scoreById, exactMatches, embedCalls, searchCalls, windows>>
    /\ UNCHANGED notSearchVars

\* lines 25-33: tokenize, generateEmbedding, the loop's initial values
SearchEmbed ==
    /\ spc = "start"
    /\ ~EarlyReturn(args.query)
    /\ queryTokens' = tokenize(Trim(args.query))
    /\ embedCalls' = embedCalls + 1
    /\ limit' = LimitOf(args)
    /\ maxCandidate' = MaxCandidateOf(LimitOf(args))
    /\ candidateLimit' = InitialCandidateLimit(LimitOf(args))
    /\ spc' = "loop"
    /\ UNCHANGED <<store, args, scoreById, exactMatches, returned, searchCalls, windows>>
    /\ UNCHANGED notSearchVars

\* line 35: while (candidateLimit <= maxCandidate) is false
SearchLoopExit ==
    /\ spc = "loop"
    /\ ~(candidateLimit <= maxCandidate)
    /\ spc' = "return"
    /\ UNCHANGED <<store, args, queryTokens, limit, maxCandidate, candidateLimit,
                   scoreById, exactMatches, returned, embedCalls, searchCalls, windows>>
    /\ UNCHANGED notSearchVars

\* lines 36-66: one round of the loop
SearchRound ==
    /\ spc = "loop"
    /\ candidateLimit <= maxCandidate
    /\ LET results == vectorSearch(store, candidateLimit)
           hydrated == hydrateResults(store, [k \in DOMAIN results |-> results[k]._id])
           filtered == HighlightFilter(args, hydrated)
           matches == ExactFilter(queryTokens, filtered)
       IN  /\ scoreById' = results
           /\ exactMatches' = matches
           /\ IF ShouldBreak(Len(matches), limit, Len(results), candidateLimit)
              THEN spc' = "return" /\ candidateLimit' = candidateLimit
              ELSE spc' = "loop"
                   /\ candidateLimit' = NextCandidateLimit(candidateLimit, maxCandidate)
    /\ searchCalls' = Min(searchCalls + 1, MaxRounds)
    /\ windows' = IF Len(windows) < MaxRounds THEN Append(windows, candidateLimit) ELSE windows
    /\ UNCHANGED <<store, args, queryTokens, limit, maxCandidate, returned, embedCalls>>
    /\ UNCHANGED notSearchVars

\* lines 69-75
SearchFinish ==
    /\ spc = "return"
    /\ returned' = SearchReturn(exactMatches, scoreById, limit)
    /\ spc' = "done"
    /\ UNCHANGED <<store, args, queryTokens, limit, maxCandidate, candidateLimit,
                   scoreById, exactMatches, embedCalls, searchCalls, windows>>
    /\ UNCHANGED notSearchVars

SearchNext ==
    \/ SearchEarlyReturn
    \/ SearchEmbed
    \/ SearchLoopExit
    \/ SearchRound
    \/ SearchFinish

(***************************************************************************)
(* reservedSlugs.ts: the reserved-slug ledger.  The table is a sequence in *)
(* creation order; a record's _id is its position.  Every helper runs      *)
(* inside one mutation, so a call is one atomic step.  releasedAt of an    *)
(* active record is Undefined.                                             *)
(***************************************************************************)
DEFAULT_ACTIVE_LIMIT == 25

NoId == 0

ActiveIds(ledger, slug) ==
    {i \in 1..Len(ledger) : ledger[i].slug = slug /\ ledger[i].releasedAt = Undefined}

ReleasedIds(ledger, slug) ==
    {i \in 1..Len(ledger) : ledger[i].slug = slug /\ ledger[i].releasedAt # Undefined}

\* order('desc') on by_slug_active_deletedAt: latest deletedAt first, and
\* among equal deletedAt the record created last first
IndexDescBefore(ledger, i, j) ==
    \/ ledger[i].deletedAt > ledger[j].deletedAt
    \/ ledger[i].deletedAt = ledger[j].deletedAt /\ i > j

RECURSIVE OrderDesc(_, _)
OrderDesc(ledger, ids) ==
    IF ids = {} THEN <<>>
    ELSE LET first == CHOOSE i \in ids :
                          \A j \in ids \ {i} : IndexDescBefore(ledger, i, j)
         IN  <<first>> \o OrderDesc(ledger, ids \ {first})

\* Mutant: the index range selects the released records
reservedSlugQuery_Released(ledger, slug) ==
    OrderDesc(ledger, ReleasedIds(ledger, slug))

reservedSlugQuery(ledger, slug) ==
    OrderDesc(ledger, ActiveIds(ledger, slug))

Take(seq, n) == SubSeq(seq, 1, Min(n, Len(seq)))

\* Mutant: only the latest active reservation is listed
listActiveReservedSlugsForSlug_LatestOnly(ledger, slug) ==
    Take(reservedSlugQuery(ledger, slug), 1)

listActiveReservedSlugsForSlug(ledger, slug) ==
    Take(reservedSlugQuery(ledger, slug), DEFAULT_ACTIVE_LIMIT)

\* active[0] ?? null
LatestOf(active) == IF active = <<>> THEN NoId ELSE active[1]

\* Mutant: the latest of the listed reservations is always kept
releaseDuplicateActiveReservations_KeepLatest(ledger, active, keepId, releasedAt) ==
    [i \in 1..Len(ledger) |->
        IF i \in Range(active) /\ i # LatestOf(active) /\ i # keepId
        THEN [ledger[i] EXCEPT !.releasedAt = releasedAt]
        ELSE ledger[i]]

releaseDuplicateActiveReservations(ledger, active, keepId, releasedAt) ==
    [i \in 1..Len(ledger) |->
        IF i \in Range(active) /\ ~(keepId # NoId /\ i = keepId)
        THEN [ledger[i] EXCEPT !.releasedAt = releasedAt]
        ELSE ledger[i]]

NewReservation(slug, owner, deletedAt, expiresAt) ==
    [slug |-> slug, originalOwnerUserId |-> owner, deletedAt |-> deletedAt,
     expiresAt |-> expiresAt, releasedAt |-> Undefined]

\* Mutant: every delete inserts a new reservation and releases the others
reserveSlugForHardDeleteFinalize_Insert(ledger, params) ==
    releaseDuplicateActiveReservations(
        Append(ledger, NewReservation(params.slug, params.originalOwnerUserId,
                                      params.deletedAt, params.expiresAt)),
        listActiveReservedSlugsForSlug(ledger, params.slug),
        Len(ledger) + 1, params.deletedAt)

\* Mutant: the latest reservation is rewritten whoever holds it
reserveSlugForHardDeleteFinalize_Overwrite(ledger, params) ==
    LET active == listActiveReservedSlugsForSlug(ledger, params.slug)
        latest == LatestOf(active)
    IN  IF latest # NoId
        THEN releaseDuplicateActiveReservations(
                 [ledger EXCEPT ![latest].originalOwnerUserId = params.originalOwnerUserId,
                                ![latest].deletedAt = params.deletedAt,
                                ![latest].expiresAt = params.expiresAt],
                 active, latest, params.deletedAt)
        ELSE releaseDuplicateActiveReservations(
                 Append(ledger, NewReservation(params.slug,
                                               params.originalOwnerUserId,
                                               params.deletedAt, params.expiresAt)),
                 active, Len(ledger) + 1, params.deletedAt)

reserveSlugForHardDeleteFinalize(ledger, params) ==
    LET active == listActiveReservedSlugsForSlug(ledger, params.slug)
        latest == LatestOf(active)
    IN  IF latest # NoId
        THEN LET patched ==
                    IF ledger[latest].originalOwnerUserId = params.originalOwnerUserId
                    THEN [ledger EXCEPT ![latest].deletedAt = params.deletedAt,
                                        ![latest].expiresAt = params.expiresAt,
                                        ![latest].releasedAt = Undefined]
                    ELSE ledger
             IN  releaseDuplicateActiveReservations(patched, active, latest,
                                                    params.deletedAt)
        ELSE LET inserted == Len(ledger) + 1
             IN  releaseDuplicateActiveReservations(
                     Append(ledger, NewReservation(params.slug,
                                                   params.originalOwnerUserId,
                                                   params.deletedAt, params.expiresAt)),
                     active, inserted, params.deletedAt)

\* Mutant: a reservation that has not expired yet is left to its holder
upsertReservedSlugForRightfulOwner_AfterExpiry(ledger, params) ==
    LET active == listActiveReservedSlugsForSlug(ledger, params.slug)
        latest == LatestOf(active)
    IN  IF latest # NoId
        THEN releaseDuplicateActiveReservations(
                 IF ledger[latest].expiresAt > params.deletedAt
                 THEN ledger
                 ELSE [ledger EXCEPT
                          ![latest].originalOwnerUserId = params.rightfulOwnerUserId,
                          ![latest].deletedAt = params.deletedAt,
                          ![latest].expiresAt = params.expiresAt,
                          ![latest].releasedAt = Undefined],
                 active, latest, params.deletedAt)
        ELSE releaseDuplicateActiveReservations(
                 Append(ledger, NewReservation(params.slug, params.rightfulOwnerUserId,
                                               params.deletedAt, params.expiresAt)),
                 active, Len(ledger) + 1, params.deletedAt)

upsertReservedSlugForRightfulOwner(ledger, params) ==
    LET active == listActiveReservedSlugsForSlug(ledger, params.slug)
        latest == LatestOf(active)
    IN  IF latest # NoId
        THEN releaseDuplicateActiveReservations(
                 [ledger EXCEPT ![latest].originalOwnerUserId = params.rightfulOwnerUserId,
                                ![latest].deletedAt = params.deletedAt,
                                ![latest].expiresAt = params.expiresAt,
                                ![latest].releasedAt = Undefined],
                 active, latest, params.deletedAt)
        ELSE releaseDuplicateActiveReservations(
                 Append(ledger, NewReservation(params.slug, params.rightfulOwnerUserId,
                                               params.deletedAt, params.expiresAt)),
                 active, Len(ledger) + 1, params.deletedAt)

\* Mutant: the slug is still held at the instant the reservation expires
CooldownRejects_AtExpiry(ledger, params) ==
    LET latest == LatestOf(listActiveReservedSlugsForSlug(ledger, params.slug))
    IN  /\ latest # NoId
        /\ ledger[latest].expiresAt >= params.now
        /\ ledger[latest].originalOwnerUserId # params.userId

\* the throw of enforceReservedSlugCooldownForNewSkill
CooldownRejects(ledger, params) ==
    LET latest == LatestOf(listActiveReservedSlugsForSlug(ledger, params.slug))
    IN  /\ latest # NoId
        /\ ledger[latest].expiresAt > params.now
        /\ ledger[latest].originalOwnerUserId # params.userId

\* what the thrown Error's message tells: the slug and the end of the hold
NoError == [slug |-> "none", until |-> Undefined]

CooldownError(ledger, params) ==
    LET latest == LatestOf(listActiveReservedSlugsForSlug(ledger, params.slug))
    IN  IF CooldownRejects(ledger, params)
        THEN [slug |-> params.slug, until |-> ledger[latest].expiresAt]
        ELSE NoError

\* Mutant: a permitted creation releases the duplicates only
enforceReservedSlugCooldownForNewSkill_KeepLatest(ledger, params) ==
    LET active == listActiveReservedSlugsForSlug(ledger, params.slug)
        latest == LatestOf(active)
    IN  IF latest = NoId \/ CooldownRejects(ledger, params)
        THEN ledger
        ELSE releaseDuplicateActiveReservations(ledger, active, latest, params.now)

\* the table after enforceReservedSlugCooldownForNewSkill; a throw aborts
\* the mutation and leaves the table as it was
enforceReservedSlugCooldownForNewSkill(ledger, params) ==
    LET active == listActiveReservedSlugsForSlug(ledger, params.slug)
        latest == LatestOf(active)
    IN  IF latest = NoId \/ CooldownRejects(ledger, params)
        THEN ledger
        ELSE releaseDuplicateActiveReservations(
                 [ledger EXCEPT ![latest].releasedAt = params.now],
                 active, latest, params.now)

(***************************************************************************)
(* The ledger's specification: delete, reclaim and create calls with any   *)
(* slug, user and timestamps, starting from the empty table.               *)
(***************************************************************************)
MaxTime == 2
MaxReservations == 2

Slugs == {"remind-me", "reminder"}
Users == {"users:old", "users:new"}
Times == 1..MaxTime

\* the last call: its operation, its params, whether it returned normally,
\* and the table it found; reclaimed is the reservations that a reclaim has
\* pointed at a rightful owner so far
NoLedgerCall == [op |-> "none", ok |-> TRUE, error |-> NoError,
                 params |-> [slug |-> "none"], before |-> <<>>, reclaimed |-> {}]

LedgerIdle ==
    /\ reservedSlugs = <<>>
    /\ ledgerOut = NoLedgerCall

LedgerInit == LedgerIdle

\* an insert needs room in the bounded table
HasRoom(slug) ==
    \/ listActiveReservedSlugsForSlug(reservedSlugs, slug) # <<>>
    \/ Len(reservedSlugs) < MaxReservations

HardDeleteFinalize ==
    \E slug \in Slugs, owner \in Users, deletedAt \in Times, expiresAt \in Times :
        LET params == [slug |-> slug, originalOwnerUserId |-> owner,
                       deletedAt |-> deletedAt, expiresAt |-> expiresAt]
        IN  /\ HasRoom(slug)
            /\ reservedSlugs' = reserveSlugForHardDeleteFinalize(reservedSlugs, params)
            /\ ledgerOut' = [op |-> "delete", ok |-> TRUE, error |-> NoError,
                             params |-> params, before |-> reservedSlugs,
                             reclaimed |-> ledgerOut.reclaimed]
            /\ UNCHANGED notLedgerVars

\* keepId of upsertReservedSlugForRightfulOwner: the latest active reservation
\* of the slug, or the one inserted
KeepId(ledger, slug) ==
    LET latest == LatestOf(listActiveReservedSlugsForSlug(ledger, slug))
    IN  IF latest # NoId THEN latest ELSE Len(ledger) + 1

ReclaimForRightfulOwner ==
    \E slug \in Slugs, owner \in Users, deletedAt \in Times, expiresAt \in Times :
        LET params == [slug |-> slug, rightfulOwnerUserId |-> owner,
                       deletedAt |-> deletedAt, expiresAt |-> expiresAt]
        IN  /\ HasRoom(slug)
            /\ reservedSlugs' = upsertReservedSlugForRightfulOwner(reservedSlugs, params)
            /\ ledgerOut' = [op |-> "reclaim", ok |-> TRUE, error |-> NoError,
                             params |-> params, before |-> reservedSlugs,
                             reclaimed |-> ledgerOut.reclaimed
                                               \cup {KeepId(reservedSlugs, slug)}]
            /\ UNCHANGED notLedgerVars

CreateNewSkill ==
    \E slug \in Slugs, userId \in Users, at \in Times :
        LET params == [slug |-> slug, userId |-> userId, now |-> at]
        IN  /\ reservedSlugs' = enforceReservedSlugCooldownForNewSkill(reservedSlugs, params)
            /\ ledgerOut' = [op |-> "create",
                             ok |-> ~CooldownRejects(reservedSlugs, params),
                             error |-> CooldownError(reservedSlugs, params),
                             params |-> params, before |-> reservedSlugs,
                             reclaimed |-> ledgerOut.reclaimed]
            /\ UNCHANGED notLedgerVars

LedgerNext ==
    \/ HardDeleteFinalize
    \/ ReclaimForRightfulOwner
    \/ CreateNewSkill

(***************************************************************************)
(* The ledger with a consistency violation: the table starts with several  *)
(* active reservations of one slug, as earlier data may have left it, and  *)
(* the same delete, reclaim and create calls run on it.                    *)
(***************************************************************************)
MaxDuplicates == 26

DuplicateCounts == {2, 3, DEFAULT_ACTIVE_LIMIT, MaxDuplicates}

\* n active reservations of one slug, held in turn by the two users
DuplicateTable(n, first, second) ==
    [i \in 1..n |->
        NewReservation("remind-me", IF i % 2 = 1 THEN first ELSE second, 1, MaxTime)]

LedgerDuplicatesInit ==
    /\ \E n \in DuplicateCounts : \E first \in Users, second \in Users :
           reservedSlugs = DuplicateTable(n, first, second)
    /\ ledgerOut = NoLedgerCall

(***************************************************************************)
(* rateLimits.ts: the counter store behind the limiter.  One record per    *)
(* scope key, [windowStart, count]; a record of an earlier window counts   *)
(* as none.  Fixed windows: windowStart snaps to a multiple of windowMs.   *)
(***************************************************************************)
RATE_LIMIT_WINDOW_MS == 60000

RATE_LIMITS ==
    [read     |-> [ip |-> 120, key |-> 600],
     write    |-> [ip |-> 30,  key |-> 120],
     download |-> [ip |-> 20,  key |-> 120]]

Kinds == DOMAIN RATE_LIMITS

WindowStartOf(t, windowMs) == (t \div windowMs) * windowMs

NoRateLimit == [windowStart |-> Undefined, count |-> 0]

CountIn(table, key, windowStart) ==
    IF table[key].windowStart = windowStart THEN table[key].count ELSE 0

getRateLimitStatusInternal(table, t, key, lim, windowMs) ==
    LET windowStart == WindowStartOf(t, windowMs)
        count == CountIn(table, key, windowStart)
    IN  [allowed |-> count < lim,
         remaining |-> Max(0, lim - count),
         limit |-> lim,
         resetAt |-> windowStart + windowMs]

\* the mutation's return value
consumeRateLimitInternal(table, t, key, lim, windowMs) ==
    LET count == CountIn(table, key, WindowStartOf(t, windowMs))
    IN  IF count >= lim
        THEN [allowed |-> FALSE, remaining |-> 0]
        ELSE [allowed |-> TRUE, remaining |-> Max(0, lim - count - 1)]

\* the table the mutation leaves
RateLimitsAfterConsume(table, t, key, lim, windowMs) ==
    LET windowStart == WindowStartOf(t, windowMs)
        count == CountIn(table, key, windowStart)
    IN  IF count >= lim
        THEN table
        ELSE [table EXCEPT ![key] = [windowStart |-> windowStart, count |-> count + 1]]

(***************************************************************************)
(* httpRateLimit.ts: checkRateLimit is a probe (query) and, if the probe   *)
(* allows, a consume (mutation); other callers' steps may come between.    *)
(***************************************************************************)
NoResult == [allowed |-> FALSE, remaining |-> 0, limit |-> 0, resetAt |-> 0]

\* consumes counts the consume mutations the call has invoked; outcome tells
\* how it returned: "probe" | "consumed" | "conflict"
NoCall == [pc |-> "idle", key |-> <<"none", "none">>, limit |-> 0,
           status |-> NoResult, result |-> NoResult,
           consumes |-> 0, outcome |-> "none"]

\* Mutant: the consume mutation is issued whatever the probe says
ProbeDenies_Never(status) == FALSE

\* Mutant: the probe's status is returned whatever it says
ProbeDenies_Always(status) == TRUE

\* if (!status.allowed) return status
ProbeDenies(status) == ~status.allowed

\* Mutant: a write conflict lets the call through
ConflictResult_Allowed(status) ==
    [allowed |-> TRUE, remaining |-> 0, limit |-> status.limit, resetAt |-> status.resetAt]

\* the return value after a write conflict
ConflictResult(status) ==
    [allowed |-> FALSE, remaining |-> 0, limit |-> status.limit, resetAt |-> status.resetAt]

\* the return value after a consume
ConsumedResult(status, result) ==
    [allowed |-> result.allowed, remaining |-> result.remaining,
     limit |-> status.limit, resetAt |-> status.resetAt]

\* Mutant: the ip scope is always the one reported
pickMostRestrictive_Primary(primary, secondary) == primary

pickMostRestrictive(primary, secondary) ==
    IF secondary = NoResult THEN primary
    ELSE IF ~primary.allowed THEN primary
    ELSE IF ~secondary.allowed THEN secondary
    ELSE IF secondary.remaining < primary.remaining THEN secondary ELSE primary

\* Math.ceil(a / b) for a >= 0, b > 0
CeilDiv(a, b) == (a + b - 1) \div b

\* Mutant: Retry-After carries the reset instant in epoch seconds
rateHeaders_Epoch(result, nowMs) ==
    LET resetSeconds == CeilDiv(result.resetAt, 1000)
    IN  [xLimit |-> result.limit, xRemaining |-> result.remaining,
         xReset |-> resetSeconds, limit |-> result.limit,
         remaining |-> result.remaining, reset |-> resetSeconds,
         retryAfter |-> IF result.allowed THEN Undefined ELSE resetSeconds]

\* the headers as numbers; Retry-After is Undefined when absent
rateHeaders(result, nowMs) ==
    LET resetSeconds == CeilDiv(result.resetAt, 1000)
        resetDelaySeconds ==
            Max(1, IF result.resetAt > nowMs THEN CeilDiv(result.resetAt - nowMs, 1000) ELSE 0)
    IN  [xLimit |-> result.limit, xRemaining |-> result.remaining,
         xReset |-> resetSeconds, limit |-> result.limit,
         remaining |-> result.remaining, reset |-> resetDelaySeconds,
         retryAfter |-> IF result.allowed THEN Undefined ELSE resetDelaySeconds]

NoToken == "none"

IpScope(ip) == <<"ip", IF ip = NullId THEN "unknown" ELSE ip>>
KeyScope(token) == <<"key", token>>

(***************************************************************************)
(* Inputs and bounds of the limiter's specifications                       *)
(***************************************************************************)
TickMs == 30000
MaxNow == 60000
MaxLimit == 2
MaxServed == 32

Callers == {"c1", "c2", "c3"}
ClientIps == {"1.2.3.4", NullId}
Tokens == {NoToken, "clh_token"}
ScopeKeys == {IpScope(ip) : ip \in ClientIps} \cup {KeyScope(t) : t \in Tokens \ {NoToken}}
CallKeys == {IpScope("1.2.3.4")}
RateLimitArgs == 1..MaxLimit
ConfiguredLimits == {RATE_LIMITS[k].ip : k \in Kinds} \cup {RATE_LIMITS[k].key : k \in Kinds}
GrantLimits == RateLimitArgs \cup ConfiguredLimits

NoGrants == [windowStart |-> Undefined, allowed |-> [l \in GrantLimits |-> 0]]
NoServed == [windowStart |-> Undefined, n |-> 0, clean |-> TRUE]
NoRequest == [pc |-> "idle", kind |-> "read", ip |-> NullId, token |-> NoToken,
              startedAt |-> 0, answeredAt |-> 0, ipResult |-> NoResult, keyResult |-> NoResult,
              ok |-> FALSE, status |-> 0, headers |-> rateHeaders(NoResult, 0),
              before |-> [ip |-> NoRateLimit, key |-> NoRateLimit]]

RateIdle ==
    /\ now = 0
    /\ rateLimits = [k \in ScopeKeys |-> NoRateLimit]
    /\ calls = [c \in Callers |-> NoCall]
    /\ requests = [c \in Callers |-> NoRequest]
    /\ granted = [k \in ScopeKeys |-> NoGrants]
    /\ served = [ip \in ClientIps |-> NoServed]

\* time passes
Tick ==
    /\ now < MaxNow
    /\ now' = now + TickMs
    /\ UNCHANGED <<rateLimits, calls, requests, granted, served>>
    /\ UNCHANGED notRateVars

\* Step 1 of checkRateLimit: the read-only probe
CheckProbe(c) ==
    /\ calls[c].pc = "probe"
    /\ LET status == getRateLimitStatusInternal(rateLimits, now, calls[c].key,
                                                 calls[c].limit, RATE_LIMIT_WINDOW_MS)
       IN  calls' = [calls EXCEPT ![c] =
                        IF ProbeDenies(status)
                        THEN [@ EXCEPT !.pc = "returned", !.status = status,
                                       !.result = status, !.outcome = "probe"]
                        ELSE [@ EXCEPT !.pc = "consume", !.status = status]]
    /\ UNCHANGED <<now, rateLimits, requests, granted, served>>
    /\ UNCHANGED notRateVars

\* the calls allowed per scope key, limit and window
GrantedAfter(key, lim, allowed) ==
    LET windowStart == WindowStartOf(now, RATE_LIMIT_WINDOW_MS)
        current == IF granted[key].windowStart = windowStart
                   THEN granted[key]
                   ELSE [NoGrants EXCEPT !.windowStart = windowStart]
    IN  IF allowed
        THEN [granted EXCEPT ![key] =
                 [current EXCEPT !.allowed[lim] = current.allowed[lim] + 1]]
        ELSE granted

\* Step 2 of checkRateLimit: the consume mutation commits
CheckConsume(c) ==
    /\ calls[c].pc = "consume"
    /\ LET key == calls[c].key
           lim == calls[c].limit
           result == consumeRateLimitInternal(rateLimits, now, key, lim,
                                              RATE_LIMIT_WINDOW_MS)
           answer == ConsumedResult(calls[c].status, result)
       IN  /\ rateLimits' = RateLimitsAfterConsume(rateLimits, now, key, lim,
                                                   RATE_LIMIT_WINDOW_MS)
           /\ calls' = [calls EXCEPT ![c] = [@ EXCEPT !.pc = "returned",
                                                      !.result = answer,
                                                      !.consumes = @ + 1,
                                                      !.outcome = "consumed"]]
           /\ granted' = GrantedAfter(key, lim, answer.allowed)
    /\ UNCHANGED <<now, requests, served>>
    /\ UNCHANGED notRateVars

\* what the catch branch looks at: is it an Error, and does its message hold
\* 'rateLimits' and 'changed while this mutation was being run'
ConsumeErrors ==
    {[isError |-> e, namesRateLimits |-> t, saysChanged |-> ch] :
        e \in BOOLEAN, t \in BOOLEAN, ch \in BOOLEAN}

isRateLimitWriteConflict(error) ==
    IF ~error.isError THEN FALSE
    ELSE error.namesRateLimits /\ error.saysChanged

\* Mutant: after a write conflict the consume mutation is tried again
AfterConflict_Retry(call) ==
    [call EXCEPT !.consumes = Min(@ + 1, 2), !.outcome = "conflict"]

\* the catch branch: the call returns a denial, the mutation is not retried
AfterConflict(call) ==
    [call EXCEPT !.pc = "returned", !.result = ConflictResult(call.status),
                 !.consumes = @ + 1, !.outcome = "conflict"]

\* Step 2 of checkRateLimit: the consume mutation fails with a write conflict
CheckConsumeConflict(c) ==
    /\ calls[c].pc = "consume"
    /\ \E error \in ConsumeErrors : isRateLimitWriteConflict(error)
    /\ LET after == AfterConflict(calls[c])
       IN  /\ calls' = [calls EXCEPT ![c] = after]
           /\ granted' = GrantedAfter(calls[c].key, calls[c].limit,
                                      after.pc = "returned" /\ after.result.allowed)
    /\ UNCHANGED <<now, rateLimits, requests, served>>
    /\ UNCHANGED notRateVars

\* Step 2 of checkRateLimit: the consume mutation fails with another error,
\* which checkRateLimit throws on
CheckConsumeThrows(c) ==
    /\ calls[c].pc = "consume"
    /\ \E error \in ConsumeErrors : ~isRateLimitWriteConflict(error)
    /\ calls' = [calls EXCEPT ![c] = [@ EXCEPT !.pc = "threw", !.consumes = @ + 1,
                                               !.outcome = "threw"]]
    /\ UNCHANGED <<now, rateLimits, requests, granted, served>>
    /\ UNCHANGED notRateVars

(***************************************************************************)
(* The limiter's concurrent specification: callers of checkRateLimit with  *)
(* any scope key and limit, their probes and consumes interleaved, and a   *)
(* consume free to fail with a write conflict.                             *)
(***************************************************************************)
RateInit == RateIdle

CallCheckRateLimit(c) ==
    /\ calls[c].pc \in {"idle", "returned"}
    /\ \E key \in CallKeys, lim \in RateLimitArgs :
           calls' = [calls EXCEPT ![c] =
                        [NoCall EXCEPT !.pc = "probe", !.key = key, !.limit = lim]]
    /\ UNCHANGED <<now, rateLimits, requests, granted, served>>
    /\ UNCHANGED notRateVars

RateNext ==
    \/ Tick
    \/ \E c \in Callers :
           \/ CallCheckRateLimit(c)
           \/ CheckProbe(c)
           \/ CheckConsume(c)
           \/ CheckConsumeConflict(c)

(***************************************************************************)
(* The limiter's sequential specification: one client sends applyRateLimit *)
(* requests of one kind one after the other, from one address (resolved   *)
(* or not) and with or without a bearer token; no other mutation runs, so  *)
(* no consume conflicts.                                                   *)
(***************************************************************************)
SeqClients == {"c1"}

RateSeqInit ==
    /\ now = 0
    /\ rateLimits = [k \in ScopeKeys |-> NoRateLimit]
    /\ calls = [c \in Callers |-> NoCall]
    /\ \E kind \in Kinds, ip \in ClientIps, token \in Tokens :
           requests = [c \in Callers |->
                          [NoRequest EXCEPT !.kind = kind, !.ip = ip, !.token = token]]
    /\ granted = [k \in ScopeKeys |-> NoGrants]
    /\ served = [ip \in ClientIps |-> NoServed]

ServedIn(ip, windowStart) ==
    IF served[ip].windowStart = windowStart
    THEN served[ip]
    ELSE [NoServed EXCEPT !.windowStart = windowStart]

\* the counters of a request's two scopes, the key scope's only with a token
CountersOf(ip, token) ==
    [ip |-> rateLimits[IpScope(ip)],
     key |-> IF token = NoToken THEN NoRateLimit ELSE rateLimits[KeyScope(token)]]

\* applyRateLimit starts: the ip scope is checked first
RequestArrives(c) ==
    /\ requests[c].pc \in {"idle", "done", "failed"}
    /\ LET ip == requests[c].ip
       IN  /\ ServedIn(ip, WindowStartOf(now, RATE_LIMIT_WINDOW_MS)).n < MaxServed
           /\ requests' = [requests EXCEPT ![c] =
                  [NoRequest EXCEPT !.pc = "ip", !.kind = requests[c].kind,
                                    !.token = requests[c].token, !.ip = ip,
                                    !.startedAt = now,
                                    !.before = CountersOf(ip, requests[c].token)]]
           /\ calls' = [calls EXCEPT ![c] =
                  [NoCall EXCEPT !.pc = "probe", !.key = IpScope(ip),
                                 !.limit = RATE_LIMITS[requests[c].kind].ip]]
    /\ UNCHANGED <<now, rateLimits, granted, served>>
    /\ UNCHANGED notRateVars

\* a bearer token is present: the key scope is checked next
RequestChecksKey(c) ==
    /\ requests[c].pc = "ip"
    /\ calls[c].pc = "returned"
    /\ requests[c].token # NoToken
    /\ requests' = [requests EXCEPT ![c] = [@ EXCEPT !.pc = "key",
                                                     !.ipResult = calls[c].result]]
    /\ calls' = [calls EXCEPT ![c] =
           [NoCall EXCEPT !.pc = "probe", !.key = KeyScope(requests[c].token),
                          !.limit = RATE_LIMITS[requests[c].kind].key]]
    /\ UNCHANGED <<now, rateLimits, granted, served>>
    /\ UNCHANGED notRateVars

\* Mutant: only the ip scope decides
ApplyAnswer_IpOnly(ipResult, keyResult, nowMs) ==
    [ok |-> ipResult.allowed, status |-> IF ipResult.allowed THEN 0 ELSE 429,
     headers |-> rateHeaders(pickMostRestrictive(ipResult, keyResult), nowMs)]

\* applyRateLimit's answer: { ok: true, headers } or the 429 response
ApplyAnswer(ipResult, keyResult, nowMs) ==
    LET chosen == pickMostRestrictive(ipResult, keyResult)
        denied == ~ipResult.allowed \/ (keyResult # NoResult /\ ~keyResult.allowed)
    IN  [ok |-> ~denied, status |-> IF denied THEN 429 ELSE 0,
         headers |-> rateHeaders(chosen, nowMs)]

RequestAnswered(c) ==
    /\ calls[c].pc = "returned"
    /\ \/ requests[c].pc = "ip" /\ requests[c].token = NoToken
       \/ requests[c].pc = "key"
    /\ LET ipResult == IF requests[c].pc = "ip" THEN calls[c].result
                       ELSE requests[c].ipResult
           keyResult == IF requests[c].pc = "ip" THEN NoResult ELSE calls[c].result
           answer == ApplyAnswer(ipResult, keyResult, now)
           windowStart == WindowStartOf(now, RATE_LIMIT_WINDOW_MS)
           current == ServedIn(requests[c].ip, windowStart)
           inOneWindow ==
               WindowStartOf(requests[c].startedAt, RATE_LIMIT_WINDOW_MS) = windowStart
       IN  /\ requests' = [requests EXCEPT ![c] =
                  [@ EXCEPT !.pc = "done", !.answeredAt = now, !.ipResult = ipResult,
                            !.keyResult = keyResult, !.ok = answer.ok,
                            !.status = answer.status, !.headers = answer.headers]]
           /\ served' = [served EXCEPT ![requests[c].ip] =
                  [current EXCEPT !.n = current.n + 1,
                                  !.clean = current.clean /\ inOneWindow]]
    /\ UNCHANGED <<now, rateLimits, calls, granted>>
    /\ UNCHANGED notRateVars

\* checkRateLimit threw: applyRateLimit throws too, nothing is answered
RequestThrows(c) ==
    /\ requests[c].pc \in {"ip", "key"}
    /\ calls[c].pc = "threw"
    /\ requests' = [requests EXCEPT ![c] = [@ EXCEPT !.pc = "failed"]]
    /\ UNCHANGED <<now, rateLimits, calls, granted, served>>
    /\ UNCHANGED notRateVars

RateSeqNext ==
    \/ Tick
    \/ \E c \in SeqClients :
           \/ RequestArrives(c)
           \/ CheckProbe(c)
           \/ CheckConsume(c)
           \/ RequestChecksKey(c)
           \/ RequestAnswered(c)

(***************************************************************************)
(* The limiter over a stubbed counter store: the probe and the consume     *)
(* answer whatever a store shared with other clients can answer, so the    *)
(* two scopes of a request can disagree in every way.  One client sends    *)
(* applyRateLimit requests; time may pass between the steps.               *)
(***************************************************************************)
MaxStubRequests == 1

\* milliseconds from a probe to the end of its window
StubDelays == {500, 1001, RATE_LIMIT_WINDOW_MS}

StubStatuses(lim, t) ==
    {[allowed |-> r > 0, remaining |-> r, limit |-> lim, resetAt |-> t + d] :
        r \in {0, 1, lim}, d \in StubDelays}

StubConsumed(lim) ==
    {[allowed |-> FALSE, remaining |-> 0]}
        \cup {[allowed |-> TRUE, remaining |-> r] : r \in {0, lim - 1}}

RateStubInit == RateSeqInit

StubRequestArrives(c) ==
    /\ ServedIn(requests[c].ip, WindowStartOf(now, RATE_LIMIT_WINDOW_MS)).n
           < MaxStubRequests
    /\ RequestArrives(c)

\* Step 1 of checkRateLimit against the stub
StubProbe(c) ==
    /\ calls[c].pc = "probe"
    /\ \E status \in StubStatuses(calls[c].limit, now) :
           calls' = [calls EXCEPT ![c] =
                        IF ProbeDenies(status)
                        THEN [@ EXCEPT !.pc = "returned", !.status = status,
                                       !.result = status, !.outcome = "probe"]
                        ELSE [@ EXCEPT !.pc = "consume", !.status = status]]
    /\ UNCHANGED <<now, rateLimits, requests, granted, served>>
    /\ UNCHANGED notRateVars

\* Step 2 of checkRateLimit against the stub: the mutation returns
StubConsume(c) ==
    /\ calls[c].pc = "consume"
    /\ \E result \in StubConsumed(calls[c].limit) :
           calls' = [calls EXCEPT ![c] =
                        [@ EXCEPT !.pc = "returned",
                                  !.result = ConsumedResult(calls[c].status, result),
                                  !.consumes = @ + 1, !.outcome = "consumed"]]
    /\ UNCHANGED <<now, rateLimits, requests, granted, served>>
    /\ UNCHANGED notRateVars

RateStubNext ==
    \/ Tick
    \/ \E c \in SeqClients :
           \/ StubRequestArrives(c)
           \/ StubProbe(c)
           \/ StubConsume(c)
           \/ CheckConsumeConflict(c)
           \/ CheckConsumeThrows(c)
           \/ RequestThrows(c)
           \/ RequestChecksKey(c)
           \/ RequestAnswered(c)

(***************************************************************************)
(* httpRateLimit.ts: the client address.  A header value is a string       *)
(* (a sequence of characters) or Null when the header is absent; so is the *)
(* environment variable.                                                   *)
(***************************************************************************)
Str_1 == <<"1">>
Str_true == <<"t", "r", "u", "e">>
Str_yes == <<"y", "e", "s">>
Str_unknown == <<"u", "n", "k", "n", "o", "w", "n">>

\* header.split(',')[0]: the characters before the first comma
RECURSIVE BeforeComma(_)
BeforeComma(s) ==
    IF s = <<>> \/ Head(s) = "," THEN <<>> ELSE <<Head(s)>> \o BeforeComma(Tail(s))

\* x || null for a string x
OrNull(x) == IF x = <<>> THEN Null ELSE x

splitFirstIp(header) ==
    IF header = Null \/ header = <<>> THEN Null
    ELSE IF "," \in Range(header) THEN OrNull(Trim(BeforeComma(header)))
    ELSE OrNull(Trim(header))

\* Mutant: any non-empty value enables the forwarded headers
shouldTrustForwardedIps_NonEmpty(env) ==
    Trim(IF env = Null THEN <<>> ELSE env) # <<>>

shouldTrustForwardedIps(env) ==
    LET value == normalize(Trim(IF env = Null THEN <<>> ELSE env))
    IN  IF value = <<>> THEN FALSE
        ELSE value = Str_1 \/ value = Str_true \/ value = Str_yes

\* a ?? b
Coalesce(a, b) == IF a # Null THEN a ELSE b

getClientIp(headers, env) ==
    IF headers.cf # Null /\ headers.cf # <<>>
    THEN splitFirstIp(headers.cf)
    ELSE IF ~shouldTrustForwardedIps(env) THEN Null
    ELSE splitFirstIp(Coalesce(headers.realIp,
                               Coalesce(headers.forwardedFor, headers.flyClientIp)))

\* `ip:${getClientIp(request) ?? 'unknown'}`
IpScopeOf(ip) == <<"ip", IF ip = Null THEN Str_unknown ELSE ip>>

(***************************************************************************)
(* The client-address specification: one client sends download requests    *)
(* without a bearer token, each with its own address headers, under one    *)
(* setting of TRUST_FORWARDED_IPS; each request is rate-checked on the ip  *)
(* scope its headers resolve to.                                           *)
(***************************************************************************)
MaxHttpRequests == 2

Str_ip_cf == <<"1", ".", "1", ",", " ", "2", ".", "2">>
Str_ip_real == <<"3", ".", "3">>
Str_ip_forwarded == <<" ", "9", ".", "9", ",", "1", ".", "1">>
Str_ip_fly == <<"4", ".", "4">>

HeaderSets ==
    [cf : {Null, Str_ip_cf}, realIp : {Null, Str_ip_real},
     forwardedFor : {Null, Str_ip_forwarded}, flyClientIp : {Null, Str_ip_fly}]

NoHeaders == [cf |-> Null, realIp |-> Null, forwardedFor |-> Null, flyClientIp |-> Null]

TrustEnvs == {Null, <<>>, <<"0">>, <<"f", "a", "l", "s", "e">>, <<"o", "n">>,
              Str_1, <<"T", "R", "U", "E">>, <<" ", "Y", "e", "s", " ">>}

ResolvedIps == {getClientIp(h, e) : h \in HeaderSets, e \in TrustEnvs}
ResolvedScopes == {IpScopeOf(ip) : ip \in ResolvedIps}

HttpIdle ==
    /\ reqHeaders = NoHeaders
    /\ trustEnv = Null

ClientIpInit ==
    /\ reqHeaders = NoHeaders
    /\ trustEnv \in TrustEnvs
    /\ now = 0
    /\ rateLimits = [k \in ResolvedScopes |-> NoRateLimit]
    /\ calls = [c \in Callers |-> NoCall]
    /\ requests = [c \in Callers |-> [NoRequest EXCEPT !.kind = "download", !.ip = Null]]
    /\ granted = [k \in ResolvedScopes |-> NoGrants]
    /\ served = [ip \in ResolvedIps |-> NoServed]

RECURSIVE ServedTotal(_)
ServedTotal(ips) ==
    IF ips = {} THEN 0
    ELSE LET ip == CHOOSE x \in ips : TRUE
         IN  served[ip].n + ServedTotal(ips \ {ip})

\* applyRateLimit starts: the address is resolved and the ip scope checked
HttpRequestArrives(c) ==
    /\ requests[c].pc \in {"idle", "done"}
    /\ ServedTotal(ResolvedIps) < MaxHttpRequests
    /\ \E headers \in HeaderSets :
           LET ip == getClientIp(headers, trustEnv)
           IN  /\ reqHeaders' = headers
               /\ requests' = [requests EXCEPT ![c] =
                      [NoRequest EXCEPT !.pc = "ip", !.kind = requests[c].kind,
                                        !.ip = ip, !.startedAt = now]]
               /\ calls' = [calls EXCEPT ![c] =
                      [NoCall EXCEPT !.pc = "probe", !.key = IpScopeOf(ip),
                                     !.limit = RATE_LIMITS[requests[c].kind].ip]]
    /\ UNCHANGED <<now, rateLimits, granted, served, trustEnv>>
    /\ UNCHANGED notRateHttpVars

ClientIpNext ==
    \E c \in SeqClients :
        \/ HttpRequestArrives(c)
        \/ CheckProbe(c)
        \/ CheckConsume(c)
        \/ RequestAnswered(c)

(***************************************************************************)
(* maintenance.ts: the tables.  A document id is a string; a table written *)
(* by insert only is a sequence in creation order.  An optional field that *)
(* is unset holds Undefined (a number) or NullId (an id or a string).      *)
(***************************************************************************)
NoDbCall == [op |-> "none"]

MaintIdle ==
    /\ skills = <<>>
    /\ skillVersions = <<>>
    /\ skillVersionFingerprints = <<>>
    /\ skillBadges = <<>>
    /\ auditLogs = <<>>
    /\ users = <<>>
    /\ sweeps = <<>>
    /\ dbOut = NoDbCall

(***************************************************************************)
(* maintenance.ts: badges.  skill.badges is the denormalized copy of the   *)
(* skillBadges rows of the skill: per kind, NoBadge or [byUserId, at].     *)
(***************************************************************************)
BadgeKinds == {"highlighted", "official", "deprecated", "redactionApproved"}

NoBadge == [byUserId |-> NullId, at |-> Undefined]
NoBadges == [kind \in BadgeKinds |-> NoBadge]

\* withIndex('by_skill_kind', q => q.eq('skillId', ..).eq('kind', ..))
BadgeRows(table, skillId, kind) ==
    {i \in 1..Len(table) : table[i].skillId = skillId /\ table[i].kind = kind}

\* the tables and the result after upsertSkillBadgeRecordInternal; the
\* handler writes the skillBadges table only
upsertSkillBadgeRecordInternal(skillDocs, table, badgeArgs) ==
    IF BadgeRows(table, badgeArgs.skillId, badgeArgs.kind) # {}
    THEN [skills |-> skillDocs, skillBadges |-> table, inserted |-> FALSE]
    ELSE [skills |-> skillDocs,
          skillBadges |-> Append(table, [skillId |-> badgeArgs.skillId,
                                         kind |-> badgeArgs.kind,
                                         byUserId |-> badgeArgs.byUserId,
                                         at |-> badgeArgs.at]),
          inserted |-> TRUE]

\* ctx.db.patch(args.skillId, { badges: args.badges ?? undefined, .. })
applySkillBadgeBackfillPatchInternal(skillDocs, skillId, badges) ==
    [skillDocs EXCEPT ![skillId].badges = badges]

(***************************************************************************)
(* The badge specification: upserts of badge records by one moderator on   *)
(* one skill, and backfill patches of its skill.badges.                    *)
(***************************************************************************)
BadgeSkillIds == {"skills:1"}
BadgeUsers == {"users:1"}
BadgePatches ==
    {NoBadges, [NoBadges EXCEPT !["highlighted"] = [byUserId |-> "users:1", at |-> 1]]}

BadgeInit ==
    /\ skills = [id \in BadgeSkillIds |-> [badges |-> NoBadges]]
    /\ skillVersions = <<>>
    /\ skillVersionFingerprints = <<>>
    /\ skillBadges = <<>>
    /\ auditLogs = <<>>
    /\ users = <<>>
    /\ sweeps = <<>>
    /\ dbOut = NoDbCall

UpsertSkillBadgeRecord ==
    \E skillId \in BadgeSkillIds, kind \in BadgeKinds, byUserId \in BadgeUsers,
       at \in Times :
        LET badgeArgs == [skillId |-> skillId, kind |-> kind, byUserId |-> byUserId,
                          at |-> at]
            after == upsertSkillBadgeRecordInternal(skills, skillBadges, badgeArgs)
        IN  /\ skills' = after.skills
            /\ skillBadges' = after.skillBadges
            /\ dbOut' = [op |-> "upsertSkillBadgeRecord", args |-> badgeArgs,
                         inserted |-> after.inserted, rowsBefore |-> Len(skillBadges)]
            /\ UNCHANGED <<skillVersions, skillVersionFingerprints, auditLogs, users, sweeps>>
            /\ UNCHANGED notMaintVars

ApplySkillBadgeBackfillPatch ==
    \E skillId \in BadgeSkillIds, badges \in BadgePatches :
        /\ skills' = applySkillBadgeBackfillPatchInternal(skills, skillId, badges)
        /\ dbOut' = [op |-> "applySkillBadgeBackfillPatch"]
        /\ UNCHANGED <<skillVersions, skillVersionFingerprints, skillBadges, auditLogs,
                         users, sweeps>>
        /\ UNCHANGED notMaintVars

BadgeNext ==
    \/ UpsertSkillBadgeRecord
    \/ ApplySkillBadgeBackfillPatch

(***************************************************************************)
(* maintenance.ts: the empty-skill cleanup and the ban nominations.        *)
(* A job is an action: every runQuery and runMutation it makes is a        *)
(* transaction of its own, so other jobs run between its steps.  What a    *)
(* job finds behind a skill (the version document, the readme file, the    *)
(* storage blob, the verdict of evaluateQuality) is the skill's content,   *)
(* which no job changes.  The sampleSlugs and handle of a nomination are   *)
(* left out; its emptySkillCount is kept.                                  *)
(***************************************************************************)
DEFAULT_BATCH_SIZE == 50
MAX_BATCH_SIZE == 200
DEFAULT_MAX_BATCHES == 20
MAX_MAX_BATCHES == 200
DEFAULT_EMPTY_SKILL_NOMINATION_THRESHOLD == 3

EMPTY_BACKFILL_REASON == "quality.empty.backfill"
EMPTY_BACKFILL_ACTION == "skill.delete.empty.backfill"
BAN_NOMINATION_ACTION == "user.ban.nomination.empty-skill-spam"

\* Math.min(max, Math.max(min, Math.trunc(value))) on integers
clampInt(value, min, max) == Min(max, Max(min, value))

\* a ?? b for an optional number
OrDefault(a, b) == IF a = Undefined THEN b ELSE a

\* the skills table in creation order, as order('asc') reads it
SkillOrder == <<"skills:1", "skills:2", "skills:3">>
MaintUsers == {"users:1", "users:2"}

\* paginate({cursor, numItems}): the cursor is the number of documents
\* already paged, 0 for null
PageEnd(cursor, numItems) == Min(Len(SkillOrder), cursor + numItems)

getEmptySkillCleanupPageInternal(skillDocs, cursor, batchSizeArg) ==
    LET batchSize == clampInt(OrDefault(batchSizeArg, DEFAULT_BATCH_SIZE), 1,
                              MAX_BATCH_SIZE)
        end == PageEnd(cursor, batchSize)
    IN  [items |-> [k \in 1..(end - cursor) |->
                       LET id == SkillOrder[cursor + k]
                       IN  [skillId |-> id,
                            ownerUserId |-> skillDocs[id].ownerUserId,
                            content |-> skillDocs[id].content,
                            softDeletedAt |-> skillDocs[id].softDeletedAt,
                            moderationReason |-> skillDocs[id].moderationReason]],
         cursor |-> end,
         isDone |-> end = Len(SkillOrder)]

\* Mutant: the soft-delete guard is missing
applyEmptySkillCleanupInternal_NoGuard(db, skillId, at) ==
    [skills |-> [db.skills EXCEPT
                    ![skillId].softDeletedAt = at,
                    ![skillId].moderationStatus = "hidden",
                    ![skillId].moderationReason = EMPTY_BACKFILL_REASON],
     auditLogs |-> Append(db.auditLogs,
                          [actorUserId |-> db.skills[skillId].ownerUserId,
                           action |-> EMPTY_BACKFILL_ACTION,
                           targetType |-> "skill", targetId |-> skillId]),
     users |-> db.users,
     deleted |-> TRUE]

\* the tables and the result after applyEmptySkillCleanupInternal run at
\* Date.now() = at; db is [skills, auditLogs, users]
applyEmptySkillCleanupInternal(db, skillId, at) ==
    IF skillId \notin DOMAIN db.skills
    THEN [skills |-> db.skills, auditLogs |-> db.auditLogs, users |-> db.users,
          deleted |-> FALSE]
    ELSE IF db.skills[skillId].softDeletedAt # Undefined
    THEN [skills |-> db.skills, auditLogs |-> db.auditLogs, users |-> db.users,
          deleted |-> FALSE]
    ELSE [skills |-> [db.skills EXCEPT
                         ![skillId].softDeletedAt = at,
                         ![skillId].moderationStatus = "hidden",
                         ![skillId].moderationReason = EMPTY_BACKFILL_REASON],
          auditLogs |-> Append(db.auditLogs,
                               [actorUserId |-> db.skills[skillId].ownerUserId,
                                action |-> EMPTY_BACKFILL_ACTION,
                                targetType |-> "skill", targetId |-> skillId]),
          users |-> db.users,
          deleted |-> TRUE]

\* query('auditLogs').withIndex('by_target', ..).filter(action = ..)
NominationEntries(logs, userId) ==
    {i \in 1..Len(logs) :
        /\ logs[i].targetType = "user"
        /\ logs[i].targetId = userId
        /\ logs[i].action = BAN_NOMINATION_ACTION}

\* Mutant: the existing-entry check is missing
nominateUserForEmptySkillSpamInternal_NoCheck(db, userId) ==
    [skills |-> db.skills,
     auditLogs |-> Append(db.auditLogs,
                          [actorUserId |-> userId, action |-> BAN_NOMINATION_ACTION,
                           targetType |-> "user", targetId |-> userId]),
     users |-> db.users,
     created |-> TRUE]

\* Mutant: the nominated account is banned on the spot
nominateUserForEmptySkillSpamInternal_Ban(db, userId) ==
    IF NominationEntries(db.auditLogs, userId) # {}
    THEN [skills |-> db.skills, auditLogs |-> db.auditLogs, users |-> db.users,
          created |-> FALSE]
    ELSE [skills |-> db.skills,
          auditLogs |-> Append(db.auditLogs,
                               [actorUserId |-> userId, action |-> BAN_NOMINATION_ACTION,
                                targetType |-> "user", targetId |-> userId]),
          users |-> [db.users EXCEPT ![userId].deletedAt = 1],
          created |-> TRUE]

nominateUserForEmptySkillSpamInternal(db, userId) ==
    IF NominationEntries(db.auditLogs, userId) # {}
    THEN [skills |-> db.skills, auditLogs |-> db.auditLogs, users |-> db.users,
          created |-> FALSE]
    ELSE [skills |-> db.skills,
          auditLogs |-> Append(db.auditLogs,
                               [actorUserId |-> userId, action |-> BAN_NOMINATION_ACTION,
                                targetType |-> "user", targetId |-> userId]),
          users |-> db.users,
          created |-> TRUE]

(***************************************************************************)
(* The jobs.  A job's record holds the handler's locals: cursor, isDone,   *)
(* the batch counter i, the items of the page not processed yet, totals    *)
(* and emptyByOwner (a Map: a sequence of [userId, emptySkillCount] in     *)
(* insertion order).  mutations counts its runMutation calls, last tells   *)
(* what it did with the item processed last, startCursor is args.cursor,   *)
(* runs counts the invocations made in the job's slot.                     *)
(***************************************************************************)
JobIds == {"job:1", "job:2"}

NoCleanupTotals ==
    [skillsScanned |-> 0, skillsEvaluated |-> 0, emptyDetected |-> 0,
     skillsDeleted |-> 0, missingLatestVersion |-> 0, missingVersionDoc |-> 0,
     missingReadme |-> 0, missingStorageBlob |-> 0, skippedLargeReadme |-> 0]

NoNominationTotals ==
    [skillsScanned |-> 0, usersFlagged |-> 0, nominationsCreated |-> 0,
     nominationsExisting |-> 0]

NoLast == [skillId |-> NullId, outcome |-> "none", mutated |-> FALSE,
           totalsBefore |-> NoCleanupTotals]

NoJobResult == [cursor |-> 0, isDone |-> FALSE, nominations |-> <<>>]

NoSweepArgs == [batchSize |-> Undefined, maxBatches |-> Undefined,
                nominationThreshold |-> Undefined]

NoJob == [kind |-> "none", pc |-> "idle", dryRun |-> FALSE, batchSize |-> Undefined,
          maxBatches |-> 1, nominationThreshold |-> 1, cursor |-> 0,
          startCursor |-> 0, isDone |-> FALSE, i |-> 0, items |-> <<>>,
          totals |-> NoCleanupTotals, emptyByOwner |-> <<>>, pending |-> <<>>,
          mutations |-> 0, last |-> NoLast, result |-> NoJobResult, runs |-> 0,
          sweepArgs |-> NoSweepArgs, useAi |-> FALSE]

\* emptyByOwner.get(ownerKey) ?? {emptySkillCount: 0}, count + 1, set
CountOwner(emptyByOwner, userId) ==
    IF \E k \in 1..Len(emptyByOwner) : emptyByOwner[k].userId = userId
    THEN [k \in 1..Len(emptyByOwner) |->
             IF emptyByOwner[k].userId = userId
             THEN [emptyByOwner[k] EXCEPT !.emptySkillCount = @ + 1]
             ELSE emptyByOwner[k]]
    ELSE Append(emptyByOwner, [userId |-> userId, emptySkillCount |-> 1])

\* .sort((a, b) => b.emptySkillCount - a.emptySkillCount), a stable sort
RECURSIVE SortByCountDesc(_)
SortByCountDesc(entries) ==
    IF entries = <<>> THEN <<>>
    ELSE LET first == CHOOSE k \in 1..Len(entries) :
                          \A l \in 1..Len(entries) :
                              \/ entries[k].emptySkillCount > entries[l].emptySkillCount
                              \/ /\ entries[k].emptySkillCount = entries[l].emptySkillCount
                                 /\ k <= l
             rest == [l \in 1..(Len(entries) - 1) |->
                         IF l < first THEN entries[l] ELSE entries[l + 1]]
         IN  <<entries[first]>> \o SortByCountDesc(rest)

\* Array.from(emptyByOwner.values()).filter(count >= threshold).sort(..)
NominationsOf(emptyByOwner, nominationThreshold) ==
    SortByCountDesc(SelectSeq(emptyByOwner,
        LAMBDA entry : entry.emptySkillCount >= nominationThreshold))

\* const dryRun = args.dryRun !== false
CleanupDryRun(dryRunArg) == dryRunArg # "false"

\* what the cleanup reads of a skill that is not soft-deleted, in the order
\* of its checks; "keep" and "reject" are the verdicts of evaluateQuality
CleanupOutcomes ==
    {"missingLatestVersion", "missingVersionDoc", "missingReadme", "largeReadme",
     "missingStorageBlob", "keep", "reject"}

DependencyFailures ==
    {"missingLatestVersion", "missingVersionDoc", "missingReadme",
     "missingStorageBlob"}

\* Mutant: a missing storage blob is not counted
CleanupCount_BlobUncounted(totals, outcome) ==
    LET scanned == [totals EXCEPT !.skillsScanned = @ + 1]
    IN  CASE outcome = "deleted" -> scanned
          [] outcome = "missingLatestVersion" ->
                [scanned EXCEPT !.missingLatestVersion = @ + 1]
          [] outcome = "missingVersionDoc" ->
                [scanned EXCEPT !.missingVersionDoc = @ + 1]
          [] outcome = "missingReadme" -> [scanned EXCEPT !.missingReadme = @ + 1]
          [] outcome = "largeReadme" -> [scanned EXCEPT !.skippedLargeReadme = @ + 1]
          [] outcome = "missingStorageBlob" -> scanned
          [] outcome = "keep" -> [scanned EXCEPT !.skillsEvaluated = @ + 1]
          [] outcome = "reject" ->
                [scanned EXCEPT !.skillsEvaluated = @ + 1, !.emptyDetected = @ + 1]

\* totals after one item of the cleanup's loop, up to the dryRun test;
\* "deleted" is an item whose softDeletedAt is set
CleanupCount(totals, outcome) ==
    LET scanned == [totals EXCEPT !.skillsScanned = @ + 1]
    IN  CASE outcome = "deleted" -> scanned
          [] outcome = "missingLatestVersion" ->
                [scanned EXCEPT !.missingLatestVersion = @ + 1]
          [] outcome = "missingVersionDoc" ->
                [scanned EXCEPT !.missingVersionDoc = @ + 1]
          [] outcome = "missingReadme" -> [scanned EXCEPT !.missingReadme = @ + 1]
          [] outcome = "largeReadme" -> [scanned EXCEPT !.skippedLargeReadme = @ + 1]
          [] outcome = "missingStorageBlob" ->
                [scanned EXCEPT !.missingStorageBlob = @ + 1]
          [] outcome = "keep" -> [scanned EXCEPT !.skillsEvaluated = @ + 1]
          [] outcome = "reject" ->
                [scanned EXCEPT !.skillsEvaluated = @ + 1, !.emptyDetected = @ + 1]

\* Mutant: dryRun is not looked at
CleanupMutates_Always(job, outcome) == outcome = "reject"

\* if (dryRun) continue, reached by a rejected item only
CleanupMutates(job, outcome) == outcome = "reject" /\ ~job.dryRun

\* the handler's locals once the items of a page are used up: break when
\* isDone, else i++ and the loop's test; past the loop the handler returns
AfterPage(job) ==
    IF job.items # <<>> THEN job
    ELSE IF job.isDone \/ job.i + 1 >= job.maxBatches
    THEN [job EXCEPT !.pc = "return"]
    ELSE [job EXCEPT !.pc = "page", !.i = @ + 1]

(***************************************************************************)
(* The cleanup specification: overlapping runs of cleanupEmptySkills over  *)
(* three skills of two owners, one of which may have been soft-deleted by  *)
(* other means before.                                                     *)
(***************************************************************************)
\* the invocations made in one slot, and in both
MaxRuns == 2
MaxTotalRuns == 3
TotalRuns == sweeps["job:1"].runs + sweeps["job:2"].runs
MaxSweepTime == 3
SweepTimes == 2..MaxSweepTime

\* the arguments of an invocation: all defaults, a dry run, a live run with
\* the default sizes, and live runs that stop after one small batch
SweepArgs ==
    {[dryRun |-> "undefined", batchSize |-> Undefined, maxBatches |-> Undefined,
      nominationThreshold |-> Undefined],
     [dryRun |-> "true", batchSize |-> 2, maxBatches |-> 1,
      nominationThreshold |-> 1],
     [dryRun |-> "false", batchSize |-> Undefined, maxBatches |-> Undefined,
      nominationThreshold |-> Undefined],
     [dryRun |-> "false", batchSize |-> 1, maxBatches |-> 1,
      nominationThreshold |-> 2]}

SkillOwner == [id \in Range(SkillOrder) |->
                  IF id = "skills:3" THEN "users:2" ELSE "users:1"]

\* content tells what a sweep finds behind the skill: no latestVersionId, no
\* version document, no readme file, a readme over maxReadmeBytes, no storage
\* blob, or a readme evaluateQuality keeps or rejects
ActiveSkill(owner, content) ==
    [ownerUserId |-> owner, content |-> content, softDeletedAt |-> Undefined,
     moderationStatus |-> "active", moderationReason |-> NullId]

\* a skill its owner deleted
OwnerDeletedSkill(owner) ==
    [ownerUserId |-> owner, content |-> "reject", softDeletedAt |-> 1,
     moderationStatus |-> "active", moderationReason |-> NullId]

\* a skill an earlier cleanup deleted
BackfillDeletedSkill(owner) ==
    [ownerUserId |-> owner, content |-> "reject", softDeletedAt |-> 1,
     moderationStatus |-> "hidden", moderationReason |-> EMPTY_BACKFILL_REASON]

ActiveUser == [role |-> "user", deletedAt |-> Undefined]

CleanupInit ==
    /\ \E first \in {ActiveSkill("users:1", c) :
                        c \in {"reject", "keep", "missingStorageBlob"}},
          third \in {ActiveSkill("users:2", "reject"), OwnerDeletedSkill("users:2")} :
           skills = [id \in Range(SkillOrder) |->
                        CASE id = "skills:1" -> first
                          [] id = "skills:3" -> third
                          [] OTHER -> ActiveSkill(SkillOwner[id], "reject")]
    /\ skillVersions = <<>>
    /\ skillVersionFingerprints = <<>>
    /\ skillBadges = <<>>
    /\ auditLogs = <<>>
    /\ users = [u \in MaintUsers |-> ActiveUser]
    /\ sweeps = [j \in JobIds |-> NoJob]
    /\ dbOut = NoDbCall

\* an invocation starts from no cursor, or from the cursor the job's last
\* invocation returned
StartCursors(job) ==
    {0} \cup (IF job.kind = "cleanup" /\ job.pc = "done" THEN {job.result.cursor}
              ELSE {})

StartCleanup(j) ==
    /\ sweeps[j].pc \in {"idle", "done", "failed"}
    /\ sweeps[j].runs < MaxRuns
    /\ TotalRuns < MaxTotalRuns
    /\ \E sweepArgs \in SweepArgs, cursor \in StartCursors(sweeps[j]) :
           sweeps' = [sweeps EXCEPT ![j] =
               [NoJob EXCEPT
                   !.kind = "cleanup", !.pc = "page",
                   !.dryRun = CleanupDryRun(sweepArgs.dryRun),
                   !.batchSize = sweepArgs.batchSize,
                   !.maxBatches = clampInt(OrDefault(sweepArgs.maxBatches, DEFAULT_MAX_BATCHES),
                                           1, MAX_MAX_BATCHES),
                   !.nominationThreshold =
                       clampInt(OrDefault(sweepArgs.nominationThreshold,
                                          DEFAULT_EMPTY_SKILL_NOMINATION_THRESHOLD),
                                1, 100),
                   !.cursor = cursor,
                   !.startCursor = cursor,
                   !.runs = sweeps[j].runs + 1]]
    /\ UNCHANGED <<skills, skillVersions, skillVersionFingerprints, skillBadges,
                   auditLogs, users, dbOut>>
    /\ UNCHANGED notMaintVars

\* the cleanup's return value
CleanupReturn(job) ==
    IF job.pc # "return" THEN job
    ELSE [job EXCEPT !.pc = "done",
                     !.result = [cursor |-> job.cursor, isDone |-> job.isDone,
                                 nominations |-> NominationsOf(job.emptyByOwner,
                                                               job.nominationThreshold)]]

\* runQuery(getEmptySkillCleanupPageInternal, {cursor, batchSize})
FetchPage(j) ==
    /\ sweeps[j].kind = "cleanup"
    /\ sweeps[j].pc = "page"
    /\ LET page == getEmptySkillCleanupPageInternal(skills, sweeps[j].cursor,
                                                    sweeps[j].batchSize)
           job == [sweeps[j] EXCEPT !.pc = "items", !.items = page.items,
                                    !.cursor = page.cursor, !.isDone = page.isDone]
       IN  sweeps' = [sweeps EXCEPT ![j] = CleanupReturn(AfterPage(job))]
    /\ UNCHANGED <<skills, skillVersions, skillVersionFingerprints, skillBadges,
                   auditLogs, users, dbOut>>
    /\ UNCHANGED notMaintVars

\* one turn of the cleanup's loop over page.items
CleanupItem(j) ==
    /\ sweeps[j].kind = "cleanup"
    /\ sweeps[j].pc = "items"
    /\ sweeps[j].items # <<>>
    /\ LET job == sweeps[j]
           item == Head(job.items)
           outcome == IF item.softDeletedAt # Undefined THEN "deleted"
                      ELSE item.content
       IN  \E at \in SweepTimes :
               LET counted == CleanupCount(job.totals, outcome)
                   mutates == CleanupMutates(job, outcome)
                   after == IF mutates
                            THEN applyEmptySkillCleanupInternal(
                                     [skills |-> skills, auditLogs |-> auditLogs,
                                      users |-> users], item.skillId, at)
                            ELSE [skills |-> skills, auditLogs |-> auditLogs,
                                  users |-> users, deleted |-> FALSE]
                   next == [job EXCEPT
                       !.items = Tail(job.items),
                       !.totals = IF after.deleted
                                  THEN [counted EXCEPT !.skillsDeleted = @ + 1]
                                  ELSE counted,
                       !.emptyByOwner = IF outcome = "reject"
                                        THEN CountOwner(job.emptyByOwner, item.ownerUserId)
                                        ELSE job.emptyByOwner,
                       !.mutations = IF mutates THEN job.mutations + 1
                                     ELSE job.mutations,
                       !.last = [skillId |-> item.skillId, outcome |-> outcome,
                                 mutated |-> mutates, totalsBefore |-> job.totals]]
               IN  /\ (~mutates => at = MaxSweepTime)
                   /\ sweeps' = [sweeps EXCEPT ![j] = CleanupReturn(AfterPage(next))]
                   /\ skills' = after.skills
                   /\ auditLogs' = after.auditLogs
                   /\ users' = after.users
    /\ UNCHANGED <<skillVersions, skillVersionFingerprints, skillBadges, dbOut>>
    /\ UNCHANGED notMaintVars

CleanupNext ==
    \E j \in JobIds :
        \/ StartCleanup(j)
        \/ FetchPage(j)
        \/ CleanupItem(j)

(***************************************************************************)
(* The nomination specification: overlapping runs of                       *)
(* nominateEmptySkillSpammers over a skills table that does not change     *)
(* meanwhile.  A scan that stopped at maxBatches is resumed with the       *)
(* cursor it returned and the arguments it had.                            *)
(***************************************************************************)
NominationArgs ==
    {[batchSize |-> Undefined, maxBatches |-> Undefined,
      nominationThreshold |-> Undefined],
     [batchSize |-> Undefined, maxBatches |-> Undefined, nominationThreshold |-> 1],
     [batchSize |-> 2, maxBatches |-> 1, nominationThreshold |-> 2],
     [batchSize |-> 1, maxBatches |-> 2, nominationThreshold |-> 2]}

SkillStates(owner) ==
    {ActiveSkill(owner, "keep"), OwnerDeletedSkill(owner), BackfillDeletedSkill(owner)}

NominateInit ==
    /\ \E first \in SkillStates("users:1"), second \in SkillStates("users:1"),
          third \in SkillStates("users:1") \cup SkillStates("users:2") :
           skills = [id \in Range(SkillOrder) |->
                        CASE id = "skills:1" -> first
                          [] id = "skills:2" -> second
                          [] OTHER -> third]
    /\ skillVersions = <<>>
    /\ skillVersionFingerprints = <<>>
    /\ skillBadges = <<>>
    /\ auditLogs = <<>>
    /\ users = [u \in MaintUsers |-> ActiveUser]
    /\ sweeps = [j \in JobIds |-> NoJob]
    /\ dbOut = NoDbCall

NominateJob(sweepArgs, cursor, runs) ==
    [NoJob EXCEPT
        !.kind = "nominate", !.pc = "page",
        !.batchSize = sweepArgs.batchSize,
        !.maxBatches = clampInt(OrDefault(sweepArgs.maxBatches, DEFAULT_MAX_BATCHES),
                                1, MAX_MAX_BATCHES),
        !.nominationThreshold =
            clampInt(OrDefault(sweepArgs.nominationThreshold,
                               DEFAULT_EMPTY_SKILL_NOMINATION_THRESHOLD), 1, 100),
        !.cursor = cursor,
        !.startCursor = cursor,
        !.totals = NoNominationTotals,
        !.sweepArgs = sweepArgs,
        !.runs = runs + 1]

StartNominate(j) ==
    /\ sweeps[j].pc \in {"idle", "done"}
    /\ sweeps[j].runs < MaxRuns
    /\ TotalRuns < MaxTotalRuns
    /\ \E sweepArgs \in NominationArgs :
           sweeps' = [sweeps EXCEPT ![j] = NominateJob(sweepArgs, 0, sweeps[j].runs)]
    /\ UNCHANGED <<skills, skillVersions, skillVersionFingerprints, skillBadges,
                   auditLogs, users, dbOut>>
    /\ UNCHANGED notMaintVars

\* the caller passes the returned cursor to the next invocation
ResumeNominate(j) ==
    /\ sweeps[j].kind = "nominate"
    /\ sweeps[j].pc = "done"
    /\ ~sweeps[j].result.isDone
    /\ sweeps[j].runs < MaxRuns
    /\ TotalRuns < MaxTotalRuns
    /\ sweeps' = [sweeps EXCEPT ![j] =
           NominateJob(sweeps[j].sweepArgs, sweeps[j].result.cursor, sweeps[j].runs)]
    /\ UNCHANGED <<skills, skillVersions, skillVersionFingerprints, skillBadges,
                   auditLogs, users, dbOut>>
    /\ UNCHANGED notMaintVars

NominateResult(job) ==
    [cursor |-> job.cursor, isDone |-> job.isDone,
     nominations |-> NominationsOf(job.emptyByOwner, job.nominationThreshold)]

\* after the loop: usersFlagged, and the nominations to write if (isDone)
NominateAfterLoop(job) ==
    IF job.pc # "return" THEN job
    ELSE LET nominations == NominationsOf(job.emptyByOwner, job.nominationThreshold)
             pending == IF job.isDone THEN nominations ELSE <<>>
         IN  [job EXCEPT !.totals.usersFlagged = Len(nominations),
                         !.pending = pending,
                         !.pc = IF pending = <<>> THEN "done" ELSE "nominate",
                         !.result = NominateResult(job)]

NominateFetchPage(j) ==
    /\ sweeps[j].kind = "nominate"
    /\ sweeps[j].pc = "page"
    /\ LET page == getEmptySkillCleanupPageInternal(skills, sweeps[j].cursor,
                                                    sweeps[j].batchSize)
           job == [sweeps[j] EXCEPT !.pc = "items", !.items = page.items,
                                    !.cursor = page.cursor, !.isDone = page.isDone]
       IN  sweeps' = [sweeps EXCEPT ![j] = NominateAfterLoop(AfterPage(job))]
    /\ UNCHANGED <<skills, skillVersions, skillVersionFingerprints, skillBadges,
                   auditLogs, users, dbOut>>
    /\ UNCHANGED notMaintVars

\* one turn of the nomination's loop over page.items
NominateItem(j) ==
    /\ sweeps[j].kind = "nominate"
    /\ sweeps[j].pc = "items"
    /\ sweeps[j].items # <<>>
    /\ LET job == sweeps[j]
           item == Head(job.items)
           counts == /\ item.softDeletedAt # Undefined
                     /\ item.moderationReason = EMPTY_BACKFILL_REASON
           next == [job EXCEPT
               !.items = Tail(job.items),
               !.totals.skillsScanned = @ + 1,
               !.emptyByOwner = IF counts THEN CountOwner(job.emptyByOwner,
                                                          item.ownerUserId)
                                ELSE job.emptyByOwner]
       IN  sweeps' = [sweeps EXCEPT ![j] = NominateAfterLoop(AfterPage(next))]
    /\ UNCHANGED <<skills, skillVersions, skillVersionFingerprints, skillBadges,
                   auditLogs, users, dbOut>>
    /\ UNCHANGED notMaintVars

\* one turn of the loop over nominations:
\* runMutation(nominateUserForEmptySkillSpamInternal)
NominateUser(j) ==
    /\ sweeps[j].kind = "nominate"
    /\ sweeps[j].pc = "nominate"
    /\ LET job == sweeps[j]
           userId == Head(job.pending).userId
           after == nominateUserForEmptySkillSpamInternal(
                        [skills |-> skills, auditLogs |-> auditLogs, users |-> users],
                        userId)
           rest == Tail(job.pending)
       IN  /\ sweeps' = [sweeps EXCEPT ![j] =
                  [job EXCEPT
                      !.pending = rest,
                      !.totals.nominationsCreated = IF after.created THEN @ + 1 ELSE @,
                      !.totals.nominationsExisting = IF after.created THEN @ ELSE @ + 1,
                      !.mutations = @ + 1,
                      !.pc = IF rest = <<>> THEN "done" ELSE "nominate"]]
           /\ skills' = after.skills
           /\ auditLogs' = after.auditLogs
           /\ users' = after.users
           /\ dbOut' = [op |-> "nominateUserForEmptySkillSpam", userId |-> userId,
                        created |-> after.created,
                        entriesBefore |-> Cardinality(NominationEntries(auditLogs, userId))]
    /\ UNCHANGED <<skillVersions, skillVersionFingerprints, skillBadges>>
    /\ UNCHANGED notMaintVars

NominateNext ==
    \E j \in JobIds :
        \/ StartNominate(j)
        \/ ResumeNominate(j)
        \/ NominateFetchPage(j)
        \/ NominateItem(j)
        \/ NominateUser(j)

(***************************************************************************)
(* maintenance.ts: the summary backfill and the fingerprint backfill.      *)
(* Each skill k has the version skillVersions:k as its latest one, unless  *)
(* its content says the id or the document is missing.  What               *)
(* buildSkillSummaryBackfillPatch and generateSkillSummary return is       *)
(* drawn when an item is processed.                                        *)
(***************************************************************************)
VersionOrder == <<"skillVersions:1", "skillVersions:2", "skillVersions:3">>

VersionOf(skillId) ==
    CASE skillId = "skills:1" -> "skillVersions:1"
      [] skillId = "skills:2" -> "skillVersions:2"
      [] OTHER -> "skillVersions:3"

\* Boolean(args.dryRun)
BackfillDryRun(dryRunArg) == dryRunArg = "true"

NoBackfillTotals ==
    [skillsScanned |-> 0, skillsPatched |-> 0, aiSummariesPatched |-> 0,
     versionsPatched |-> 0, missingLatestVersion |-> 0, missingReadme |-> 0,
     missingStorageBlob |-> 0]

NoFingerprintTotals ==
    [versionsScanned |-> 0, versionsPatched |-> 0, fingerprintsInserted |-> 0,
     fingerprintMismatches |-> 0]

\* the kind of a page item
BackfillItemKind(content) ==
    IF content \in {"missingLatestVersion", "missingVersionDoc", "missingReadme"}
    THEN content ELSE "ok"

getSkillBackfillPageInternal(skillDocs, versionDocs, cursor, batchSizeArg) ==
    LET batchSize == clampInt(OrDefault(batchSizeArg, DEFAULT_BATCH_SIZE), 1,
                              MAX_BATCH_SIZE)
        end == PageEnd(cursor, batchSize)
    IN  [items |-> [k \in 1..(end - cursor) |->
                       LET id == SkillOrder[cursor + k]
                       IN  [kind |-> BackfillItemKind(skillDocs[id].content),
                            skillId |-> id,
                            versionId |-> VersionOf(id),
                            skillSummary |-> skillDocs[id].summary,
                            versionParsed |-> versionDocs[VersionOf(id)].parsed,
                            blob |-> skillDocs[id].content # "missingStorageBlob"]],
         cursor |-> end,
         isDone |-> end = Len(SkillOrder)]

applySkillBackfillPatchInternal(skillDocs, versionDocs, patchArgs) ==
    [skills |-> IF patchArgs.summary # NullId
                THEN [skillDocs EXCEPT ![patchArgs.skillId].summary = patchArgs.summary]
                ELSE skillDocs,
     skillVersions |-> IF patchArgs.parsed # NullId
                       THEN [versionDocs EXCEPT
                                ![patchArgs.versionId].parsed = patchArgs.parsed]
                       ELSE versionDocs]

\* what buildSkillSummaryBackfillPatch returns: summary and parsed, each
\* possibly undefined; and what generateSkillSummary returns
SummaryPatches ==
    {[summary |-> sm, parsed |-> pr] :
        sm \in {NullId, "summary:old", "summary:derived"},
        pr \in {NullId, "parsed:new"}}
AiSummaries == {NullId, "summary:ai"}

\* one item of the summary backfill's loop, up to the dryRun test: the
\* totals, what happened, and the arguments of the mutation
SummaryStep(job, item, patch, ai) ==
    LET scanned == [job.totals EXCEPT !.skillsScanned = @ + 1]
        skip(counter, outcome) ==
            [totals |-> [scanned EXCEPT ![counter] = @ + 1], outcome |-> outcome,
             summary |-> NullId, parsed |-> NullId]
        missingSummary == item.skillSummary = NullId
        nextSummary == IF patch.summary = NullId /\ job.useAi /\ missingSummary
                       THEN ai ELSE patch.summary
        shouldPatchSummary == nextSummary # NullId /\ nextSummary # item.skillSummary
        counted == [scanned EXCEPT
            !.skillsPatched = IF shouldPatchSummary THEN @ + 1 ELSE @,
            !.aiSummariesPatched =
                IF shouldPatchSummary /\ patch.summary = NullId THEN @ + 1 ELSE @,
            !.versionsPatched = IF patch.parsed # NullId THEN @ + 1 ELSE @]
    IN  CASE item.kind = "missingLatestVersion" ->
                skip("missingLatestVersion", "missingLatestVersion")
          [] item.kind = "missingVersionDoc" ->
                skip("missingLatestVersion", "missingVersionDoc")
          [] item.kind = "missingReadme" -> skip("missingReadme", "missingReadme")
          [] item.kind = "ok" /\ ~item.blob ->
                skip("missingStorageBlob", "missingStorageBlob")
          [] OTHER ->
                IF ~shouldPatchSummary /\ patch.parsed = NullId
                THEN [totals |-> scanned, outcome |-> "nopatch",
                      summary |-> NullId, parsed |-> NullId]
                ELSE [totals |-> counted, outcome |-> "patch",
                      summary |-> IF shouldPatchSummary THEN nextSummary ELSE NullId,
                      parsed |-> patch.parsed]

Str_files_a == "files:a"
Str_fp_a == "fp:a"
Str_fp_b == "fp:b"

\* hashSkillFiles: the fingerprint of a version's files
hashSkillFiles(files) == IF files = Str_files_a THEN Str_fp_a ELSE Str_fp_b

EntriesOf(entries, versionId) ==
    Take(SelectSeq(entries, LAMBDA e : e.versionId = versionId), 20)

FingerprintsOf(rows) == {rows[k].fingerprint : k \in 1..Len(rows)}

\* the versions of a page that need a patch
FingerprintItems(versionDocs, entries, ids) ==
    LET needs(id) ==
            LET existingEntries == EntriesOf(entries, id)
                hasAnyEntry == existingEntries # <<>>
                entryFingerprints == FingerprintsOf(existingEntries)
                hasFingerprintMismatch ==
                    /\ versionDocs[id].fingerprint # NullId
                    /\ hasAnyEntry
                    /\ \/ Cardinality(entryFingerprints) # 1
                       \/ versionDocs[id].fingerprint \notin entryFingerprints
            IN  \/ versionDocs[id].fingerprint = NullId
                \/ ~hasAnyEntry
                \/ hasFingerprintMismatch
        item(id) == [skillId |-> versionDocs[id].skillId, versionId |-> id,
                     versionFingerprint |-> versionDocs[id].fingerprint,
                     files |-> versionDocs[id].files,
                     existingEntries |-> EntriesOf(entries, id)]
        kept == SelectSeq(ids, needs)
    IN  [k \in 1..Len(kept) |-> item(kept[k])]

getSkillFingerprintBackfillPageInternal(versionDocs, entries, cursor, batchSizeArg) ==
    LET batchSize == clampInt(OrDefault(batchSizeArg, DEFAULT_BATCH_SIZE), 1,
                              MAX_BATCH_SIZE)
        end == Min(Len(VersionOrder), cursor + batchSize)
    IN  [items |-> FingerprintItems(versionDocs, entries,
                                    SubSeq(VersionOrder, cursor + 1, end)),
         cursor |-> end,
         isDone |-> end = Len(VersionOrder)]

\* the id of a row inserted into the table: above every id it holds
NextEntryId(entries) ==
    IF entries = <<>> THEN 1
    ELSE 1 + (CHOOSE top \in {entries[k].id : k \in 1..Len(entries)} :
                 \A k \in 1..Len(entries) : entries[k].id <= top)

applySkillFingerprintBackfillPatchInternal(versionDocs, entries, patchArgs) ==
    IF patchArgs.versionId \notin DOMAIN versionDocs
    THEN [skillVersions |-> versionDocs, skillVersionFingerprints |-> entries,
          ok |-> FALSE]
    ELSE [skillVersions |->
              IF patchArgs.patchVersion
              THEN [versionDocs EXCEPT
                       ![patchArgs.versionId].fingerprint = patchArgs.fingerprint]
              ELSE versionDocs,
          skillVersionFingerprints |->
              IF patchArgs.replaceEntries
              THEN Append(SelectSeq(entries,
                                    LAMBDA e : e.id \notin patchArgs.existingEntryIds),
                          [id |-> NextEntryId(entries),
                           skillId |-> versionDocs[patchArgs.versionId].skillId,
                           versionId |-> patchArgs.versionId,
                           fingerprint |-> patchArgs.fingerprint])
              ELSE entries,
          ok |-> TRUE]

\* one item of the fingerprint backfill's loop, up to the dryRun test
FingerprintStep(job, item) ==
    LET fingerprint == hashSkillFiles(item.files)
        existingFingerprints == FingerprintsOf(item.existingEntries)
        hasAnyEntry == item.existingEntries # <<>>
        entryIsCorrect == /\ hasAnyEntry
                          /\ existingFingerprints = {fingerprint}
        versionFingerprintIsCorrect == item.versionFingerprint = fingerprint
        shouldPatchVersion == ~versionFingerprintIsCorrect
        shouldReplaceEntries == ~entryIsCorrect
        scanned == [job.totals EXCEPT
            !.versionsScanned = @ + 1,
            !.fingerprintMismatches = IF hasAnyEntry /\ ~entryIsCorrect
                                      THEN @ + 1 ELSE @]
    IN  IF ~shouldPatchVersion /\ ~shouldReplaceEntries
        THEN [totals |-> scanned, outcome |-> "nopatch", fingerprint |-> fingerprint,
              patchVersion |-> FALSE, replaceEntries |-> FALSE]
        ELSE [totals |-> [scanned EXCEPT
                  !.versionsPatched = IF shouldPatchVersion THEN @ + 1 ELSE @,
                  !.fingerprintsInserted = IF shouldReplaceEntries THEN @ + 1 ELSE @],
              outcome |-> "patch", fingerprint |-> fingerprint,
              patchVersion |-> shouldPatchVersion,
              replaceEntries |-> shouldReplaceEntries]

\* if (dryRun) continue, reached by an item to patch only
BackfillMutates(job, outcome) == outcome = "patch" /\ ~job.dryRun

(***************************************************************************)
(* The backfill specification: one job at a time runs the summary          *)
(* backfill, the fingerprint backfill or the cleanup.                      *)
(***************************************************************************)
BackfillArgs ==
    {[dryRun |-> "undefined", useAi |-> FALSE, batchSize |-> Undefined,
      maxBatches |-> Undefined],
     [dryRun |-> "true", useAi |-> TRUE, batchSize |-> Undefined,
      maxBatches |-> Undefined],
     [dryRun |-> "false", useAi |-> TRUE, batchSize |-> 2, maxBatches |-> 1]}

BackfillSkill(owner, content, summary) ==
    [ownerUserId |-> owner, content |-> content, softDeletedAt |-> Undefined,
     moderationStatus |-> "active", moderationReason |-> NullId,
     summary |-> summary]

Version(skillId, files, fingerprint) ==
    [skillId |-> skillId, files |-> files, fingerprint |-> fingerprint,
     parsed |-> "parsed:old"]

Entry(id, versionId, fingerprint) ==
    [id |-> id, skillId |-> "skills:1", versionId |-> versionId,
     fingerprint |-> fingerprint]

\* the fingerprint rows of the first version: none, the right one, a wrong
\* one, or both
FirstEntries ==
    {<<>>, <<Entry(1, "skillVersions:1", Str_fp_a)>>,
     <<Entry(1, "skillVersions:1", Str_fp_b)>>,
     <<Entry(1, "skillVersions:1", Str_fp_a), Entry(2, "skillVersions:1", Str_fp_b)>>}

BackfillSkills(content, summary) ==
    [id \in Range(SkillOrder) |->
        CASE id = "skills:1" -> BackfillSkill("users:1", content, summary)
          [] id = "skills:2" -> BackfillSkill("users:1", "reject", "summary:old")
          [] OTHER -> BackfillSkill("users:2", "keep", NullId)]

BackfillVersions(fingerprint) ==
    [id \in Range(VersionOrder) |->
        CASE id = "skillVersions:1" -> Version("skills:1", Str_files_a, fingerprint)
          [] id = "skillVersions:2" -> Version("skills:2", "files:b", Str_fp_b)
          [] OTHER -> Version("skills:3", "files:b", NullId)]

BackfillEntriesTable(first) ==
    first \o <<[id |-> 3, skillId |-> "skills:2", versionId |-> "skillVersions:2",
                fingerprint |-> Str_fp_b]>>

\* the tables a job starts on: the first skill's content and summary vary,
\* or the first version's fingerprint and rows do
BackfillTables ==
    {[skills |-> BackfillSkills(content, summary),
      skillVersions |-> BackfillVersions(NullId),
      skillVersionFingerprints |-> BackfillEntriesTable(<<>>)] :
        content \in CleanupOutcomes, summary \in {NullId, "summary:old"}}
    \cup
    {[skills |-> BackfillSkills("reject", NullId),
      skillVersions |-> BackfillVersions(fingerprint),
      skillVersionFingerprints |-> BackfillEntriesTable(first)] :
        fingerprint \in {NullId, Str_fp_a, Str_fp_b}, first \in FirstEntries}

BackfillInit ==
    /\ \E tables \in BackfillTables :
           /\ skills = tables.skills
           /\ skillVersions = tables.skillVersions
           /\ skillVersionFingerprints = tables.skillVersionFingerprints
    /\ skillBadges = <<>>
    /\ auditLogs = <<>>
    /\ users = [u \in MaintUsers |-> ActiveUser]
    /\ sweeps = [j \in JobIds |-> NoJob]
    /\ dbOut = NoDbCall

BackfillJob(kind, sweepArgs, totals, cursor, runs) ==
    [NoJob EXCEPT
        !.kind = kind, !.pc = "page",
        !.dryRun = BackfillDryRun(sweepArgs.dryRun),
        !.useAi = sweepArgs.useAi,
        !.batchSize = sweepArgs.batchSize,
        !.maxBatches = clampInt(OrDefault(sweepArgs.maxBatches, DEFAULT_MAX_BATCHES),
                                1, MAX_MAX_BATCHES),
        !.cursor = cursor,
        !.startCursor = cursor,
        !.totals = totals,
        !.runs = runs + 1]

StartSummaries(j) ==
    /\ sweeps[j].pc \in {"idle", "done", "failed"}
    /\ sweeps[j].runs < MaxRuns
    /\ TotalRuns < MaxTotalRuns
    /\ \E sweepArgs \in BackfillArgs,
          cursor \in {0} \cup (IF sweeps[j].kind = "summaries" /\ sweeps[j].pc = "done"
                                THEN {sweeps[j].result.cursor} ELSE {}) :
           sweeps' = [sweeps EXCEPT ![j] =
               BackfillJob("summaries", sweepArgs, NoBackfillTotals, cursor,
                           sweeps[j].runs)]
    /\ UNCHANGED <<skills, skillVersions, skillVersionFingerprints, skillBadges,
                   auditLogs, users, dbOut>>
    /\ UNCHANGED notMaintVars

\* let cursor = null: the fingerprint backfill takes no cursor
StartFingerprints(j) ==
    /\ sweeps[j].pc \in {"idle", "done", "failed"}
    /\ sweeps[j].runs < MaxRuns
    /\ TotalRuns < MaxTotalRuns
    /\ \E sweepArgs \in BackfillArgs :
           sweeps' = [sweeps EXCEPT ![j] =
               BackfillJob("fingerprints", sweepArgs, NoFingerprintTotals, 0,
                           sweeps[j].runs)]
    /\ UNCHANGED <<skills, skillVersions, skillVersionFingerprints, skillBadges,
                   auditLogs, users, dbOut>>
    /\ UNCHANGED notMaintVars

\* the summary backfill's return
SummariesReturn(job) ==
    IF job.pc # "return" THEN job
    ELSE [job EXCEPT !.pc = "done",
                     !.result = [cursor |-> job.cursor, isDone |-> job.isDone,
                                 nominations |-> <<>>]]

\* the fingerprint backfill's end: it throws when the table is not done
FingerprintsReturn(job) ==
    IF job.pc # "return" THEN job
    ELSE [job EXCEPT !.pc = IF job.isDone THEN "done" ELSE "failed",
                     !.result = [cursor |-> job.cursor, isDone |-> job.isDone,
                                 nominations |-> <<>>]]

SummaryFetchPage(j) ==
    /\ sweeps[j].kind = "summaries"
    /\ sweeps[j].pc = "page"
    /\ LET page == getSkillBackfillPageInternal(skills, skillVersions, sweeps[j].cursor,
                                                sweeps[j].batchSize)
           job == [sweeps[j] EXCEPT !.pc = "items", !.items = page.items,
                                    !.cursor = page.cursor, !.isDone = page.isDone]
       IN  sweeps' = [sweeps EXCEPT ![j] = SummariesReturn(AfterPage(job))]
    /\ UNCHANGED <<skills, skillVersions, skillVersionFingerprints, skillBadges,
                   auditLogs, users, dbOut>>
    /\ UNCHANGED notMaintVars

\* one turn of the summary backfill's loop over page.items
SummaryItem(j) ==
    /\ sweeps[j].kind = "summaries"
    /\ sweeps[j].pc = "items"
    /\ sweeps[j].items # <<>>
    /\ LET job == sweeps[j]
           item == Head(job.items)
       IN  \E patch \in SummaryPatches, ai \in AiSummaries :
               LET step == SummaryStep(job, item, patch, ai)
                   mutates == BackfillMutates(job, step.outcome)
                   after == IF mutates
                            THEN applySkillBackfillPatchInternal(skills, skillVersions,
                                     [skillId |-> item.skillId,
                                      versionId |-> item.versionId,
                                      summary |-> step.summary,
                                      parsed |-> step.parsed])
                            ELSE [skills |-> skills, skillVersions |-> skillVersions]
                   next == [job EXCEPT
                       !.items = Tail(job.items),
                       !.totals = step.totals,
                       !.mutations = IF mutates THEN @ + 1 ELSE @,
                       !.last = [skillId |-> item.skillId, outcome |-> step.outcome,
                                 mutated |-> mutates, totalsBefore |-> job.totals]]
               IN  /\ sweeps' = [sweeps EXCEPT ![j] = SummariesReturn(AfterPage(next))]
                   /\ skills' = after.skills
                   /\ skillVersions' = after.skillVersions
    /\ UNCHANGED <<skillVersionFingerprints, skillBadges, auditLogs, users, dbOut>>
    /\ UNCHANGED notMaintVars

FingerprintFetchPage(j) ==
    /\ sweeps[j].kind = "fingerprints"
    /\ sweeps[j].pc = "page"
    /\ LET page == getSkillFingerprintBackfillPageInternal(
                       skillVersions, skillVersionFingerprints, sweeps[j].cursor,
                       sweeps[j].batchSize)
           job == [sweeps[j] EXCEPT !.pc = "items", !.items = page.items,
                                    !.cursor = page.cursor, !.isDone = page.isDone]
       IN  sweeps' = [sweeps EXCEPT ![j] = FingerprintsReturn(AfterPage(job))]
    /\ UNCHANGED <<skills, skillVersions, skillVersionFingerprints, skillBadges,
                   auditLogs, users, dbOut>>
    /\ UNCHANGED notMaintVars

\* one turn of the fingerprint backfill's loop over page.items
FingerprintItem(j) ==
    /\ sweeps[j].kind = "fingerprints"
    /\ sweeps[j].pc = "items"
    /\ sweeps[j].items # <<>>
    /\ LET job == sweeps[j]
           item == Head(job.items)
           step == FingerprintStep(job, item)
           mutates == BackfillMutates(job, step.outcome)
           after == IF mutates
                    THEN applySkillFingerprintBackfillPatchInternal(
                             skillVersions, skillVersionFingerprints,
                             [versionId |-> item.versionId,
                              fingerprint |-> step.fingerprint,
                              patchVersion |-> step.patchVersion,
                              replaceEntries |-> step.replaceEntries,
                              existingEntryIds |->
                                  IF step.replaceEntries
                                  THEN {item.existingEntries[k].id :
                                           k \in 1..Len(item.existingEntries)}
                                  ELSE {}])
                    ELSE [skillVersions |-> skillVersions,
                          skillVersionFingerprints |-> skillVersionFingerprints,
                          ok |-> TRUE]
           next == [job EXCEPT
               !.items = Tail(job.items),
               !.totals = step.totals,
               !.mutations = IF mutates THEN @ + 1 ELSE @,
               !.last = [skillId |-> item.skillId, outcome |-> step.outcome,
                         mutated |-> mutates, totalsBefore |-> job.totals]]
       IN  /\ sweeps' = [sweeps EXCEPT ![j] = FingerprintsReturn(AfterPage(next))]
           /\ skillVersions' = after.skillVersions
           /\ skillVersionFingerprints' = after.skillVersionFingerprints
    /\ UNCHANGED <<skills, skillBadges, auditLogs, users, dbOut>>
    /\ UNCHANGED notMaintVars

BackfillNext ==
    \/ StartSummaries("job:1")
    \/ SummaryFetchPage("job:1")
    \/ SummaryItem("job:1")
    \/ StartFingerprints("job:1")
    \/ FingerprintFetchPage("job:1")
    \/ FingerprintItem("job:1")
    \/ StartCleanup("job:1")
    \/ FetchPage("job:1")
    \/ CleanupItem("job:1")

(***************************************************************************)
(* The sweep specification: a cleanup and a nomination sweep side by side. *)
(***************************************************************************)
SweepNext ==
    \/ StartCleanup("job:1")
    \/ FetchPage("job:1")
    \/ CleanupItem("job:1")
    \/ StartNominate("job:2")
    \/ ResumeNominate("job:2")
    \/ NominateFetchPage("job:2")
    \/ NominateItem("job:2")
    \/ NominateUser("job:2")

(***************************************************************************)
(* skills.ts: reclaimSlugInternal, the admin reclaim of a slug.  The       *)
(* handler is described by its contract (4.4) and its tests: with          *)
(* transferRootSlugOnly the skill found under the slug is handed to the    *)
(* rightful owner in place, its embeddings with it, and the slug's active  *)
(* reservations are released; without a skill the call answers 'missing'.  *)
(* Without transferRootSlugOnly the slug is reserved for the rightful      *)
(* owner and a skill of another owner is handed to the hard-delete job.    *)
(* The ledger calls are those of the reserved-slug library.                *)
(***************************************************************************)
MaxReclaims == 2

NoReclaimCall == [calls |-> 0, action |-> "none"]

ReclaimIdle ==
    /\ skillEmbeddings = <<>>
    /\ scheduled = <<>>
    /\ reclaimOut = NoReclaimCall

\* args.slug.trim().toLowerCase()
NormalizeSlug(slug) == IF slug = "Remind-Me" THEN "remind-me" ELSE slug

\* query('skills').withIndex('by_slug').unique()
SkillBySlug(skillDocs, slug) ==
    IF \E id \in DOMAIN skillDocs : skillDocs[id].slug = slug
    THEN CHOOSE id \in DOMAIN skillDocs : skillDocs[id].slug = slug
    ELSE NullId

reclaimSlugInternal(db, reclaimArgs, at) ==
    LET slug == NormalizeSlug(reclaimArgs.slug)
        skillId == SkillBySlug(db.skills, slug)
        unchanged == [skills |-> db.skills, skillEmbeddings |-> db.skillEmbeddings,
                      reservedSlugs |-> db.reservedSlugs, scheduled |-> db.scheduled]
    IN  IF reclaimArgs.transferRootSlugOnly
        THEN IF skillId = NullId
             THEN unchanged @@ [action |-> "missing"]
             ELSE [skills |-> [db.skills EXCEPT ![skillId].ownerUserId =
                                   reclaimArgs.rightfulOwnerUserId],
                   skillEmbeddings |->
                       [k \in 1..Len(db.skillEmbeddings) |->
                           IF db.skillEmbeddings[k].skillId = skillId
                           THEN [db.skillEmbeddings[k] EXCEPT
                                    !.ownerId = reclaimArgs.rightfulOwnerUserId]
                           ELSE db.skillEmbeddings[k]],
                   reservedSlugs |->
                       releaseDuplicateActiveReservations(
                           db.reservedSlugs,
                           listActiveReservedSlugsForSlug(db.reservedSlugs, slug),
                           NoId, at),
                   scheduled |-> db.scheduled,
                   action |-> "ownership_transferred"]
        ELSE [skills |-> db.skills,
              skillEmbeddings |-> db.skillEmbeddings,
              reservedSlugs |->
                  upsertReservedSlugForRightfulOwner(
                      db.reservedSlugs,
                      [slug |-> slug,
                       rightfulOwnerUserId |-> reclaimArgs.rightfulOwnerUserId,
                       deletedAt |-> at, expiresAt |-> at + 1]),
              scheduled |->
                  IF skillId # NullId
                     /\ db.skills[skillId].ownerUserId # reclaimArgs.rightfulOwnerUserId
                  THEN Append(db.scheduled, [job |-> "hardDelete", skillId |-> skillId])
                  ELSE db.scheduled,
              action |-> IF skillId = NullId THEN "reserved" ELSE "reclaimed"]

ReclaimSlugArgs == {"Remind-Me", "reminder"}

SkillDoc(slug, owner) == [slug |-> slug, ownerUserId |-> owner]
Embedding(skillId, owner) == [skillId |-> skillId, ownerId |-> owner]

\* the squatted slug has no skill, or a skill with up to two embeddings;
\* the other slug has a skill of its own
ReclaimTables ==
    {[skills |-> [id \in {"skills:2"} |-> SkillDoc("reminder", "users:old")],
      skillEmbeddings |-> <<Embedding("skills:2", "users:old")>>]}
    \cup
    {[skills |-> [id \in {"skills:1", "skills:2"} |->
                    IF id = "skills:1" THEN SkillDoc("remind-me", owner)
                    ELSE SkillDoc("reminder", "users:old")],
      skillEmbeddings |->
          [k \in 1..n |-> Embedding("skills:1", owner)]
              \o <<Embedding("skills:2", "users:old")>>
              \o [k \in 1..n |-> Embedding("skills:1", owner)]] :
        owner \in Users, n \in 0..1}

\* the ledger the call finds: empty, the squatted slug reserved for either
\* user, released and reserved again, or only the other slug reserved
ReclaimLedgers ==
    {<<>>, <<NewReservation("reminder", "users:old", 1, MaxTime)>>}
    \cup
    {<<NewReservation("remind-me", owner, 1, MaxTime)>> : owner \in Users}
    \cup
    {<<[NewReservation("remind-me", "users:old", 1, 1) EXCEPT !.releasedAt = 1],
       NewReservation("remind-me", owner, 1, MaxTime)>> : owner \in Users}

ReclaimInit ==
    /\ \E tables \in ReclaimTables :
           /\ skills = tables.skills
           /\ skillEmbeddings = tables.skillEmbeddings
    /\ scheduled = <<>>
    /\ reclaimOut = NoReclaimCall
    /\ reservedSlugs \in ReclaimLedgers
    /\ ledgerOut = NoLedgerCall
    /\ skillVersions = <<>>
    /\ skillVersionFingerprints = <<>>
    /\ skillBadges = <<>>
    /\ auditLogs = <<>>
    /\ users = <<>>
    /\ sweeps = <<>>
    /\ dbOut = NoDbCall

\* handleAdminReclaim calls reclaimSlugInternal for one slug
ReclaimSlug ==
    /\ reclaimOut.calls < MaxReclaims
    /\ \E slug \in ReclaimSlugArgs, owner \in Users, transfer \in BOOLEAN, at \in Times :
           LET reclaimArgs == [slug |-> slug, rightfulOwnerUserId |-> owner,
                               transferRootSlugOnly |-> transfer]
               before == [skills |-> skills, skillEmbeddings |-> skillEmbeddings,
                          reservedSlugs |-> reservedSlugs, scheduled |-> scheduled]
               after == reclaimSlugInternal(before, reclaimArgs, at)
           IN  /\ skills' = after.skills
               /\ skillEmbeddings' = after.skillEmbeddings
               /\ reservedSlugs' = after.reservedSlugs
               /\ scheduled' = after.scheduled
               /\ reclaimOut' = [calls |-> reclaimOut.calls + 1,
                                 action |-> after.action,
                                 args |-> reclaimArgs, before |-> before]
    /\ UNCHANGED <<textVars, searchVars, rateVars, httpVars, ledgerOut,
                   cliVars, apiVars, batchVars, qualityVars>>
    /\ UNCHANGED <<skillVersions, skillVersionFingerprints, skillBadges, auditLogs,
                   users, sweeps, dbOut>>

ReclaimNext == ReclaimSlug

(***************************************************************************)
(* packages/clawdhub/src/http.ts: the CLI's request helpers.  apiRequest,  *)
(* apiRequestForm, fetchText and downloadZip hand one attempt (a fetch     *)
(* with a timeout, or a curl process under bun) to runWithRetries, which   *)
(* is pRetry with retries = RETRY_COUNT.  An attempt ends with a response  *)
(* or with a timeout; an error is [class, status].                         *)
(***************************************************************************)
RETRY_COUNT == 2

CliHelpers == {"apiRequest", "apiRequestForm", "fetchText", "downloadZip"}

notCliVars == <<textVars, searchVars, ledgerVars, rateVars, httpVars, maintVars,
    reclaimVars, apiVars, batchVars, qualityVars>>

NoCliError == [class |-> "none", status |-> 0]

\* controller.abort(new Error('Timeout')); under bun curl --max-time ends with
\* a non-zero exit and Error(result.stderr || 'curl failed')
TimeoutError == [class |-> "Error", status |-> 0]

\* response.ok; on the curl path !(status < 200 || status >= 300)
ResponseOk(status) == status >= 200 /\ status < 300

throwHttpStatusError_AlwaysRetryable(status) ==
    [class |-> "HttpStatusError", status |-> status]

throwHttpStatusError(status) ==
    IF status = 429 \/ status >= 500
    THEN [class |-> "HttpStatusError", status |-> status]
    ELSE [class |-> "AbortError", status |-> status]

\* the function handed to runWithRetries, the same in the four helpers
RequestAttempt(outcome) ==
    IF outcome.kind = "timeout"
    THEN [ok |-> FALSE, error |-> TimeoutError]
    ELSE IF ResponseOk(outcome.status)
         THEN [ok |-> TRUE, error |-> NoCliError]
         ELSE [ok |-> FALSE, error |-> throwHttpStatusError(outcome.status)]

\* pRetry after the failure of attempt attemptNumber: an AbortError ends the
\* call, any other error is retried while retries are left
runWithRetries(error, attemptNumber) ==
    IF error.class = "AbortError" THEN "reject"
    ELSE IF attemptNumber > RETRY_COUNT THEN "reject"
    ELSE "retry"

\* the error seen most often among the attempts, the later one on a tie
RECURSIVE CountOfError(_, _)
CountOfError(errors, e) ==
    IF errors = <<>> THEN 0
    ELSE (IF Head(errors) = e THEN 1 ELSE 0) + CountOfError(Tail(errors), e)

MainError(errors) ==
    LET best == CHOOSE i \in 1..Len(errors) :
                    \A j \in 1..Len(errors) :
                        LET ci == CountOfError(SubSeq(errors, 1, i), errors[i])
                            cj == CountOfError(SubSeq(errors, 1, j), errors[j])
                        IN  cj < ci \/ (cj = ci /\ j <= i)
    IN  errors[best]

\* what pRetry rejects with: the error of the last attempt, or (earlier
\* releases of the library) the error seen most often
RaisedErrors(errors) ==
    IF errors[Len(errors)].class = "AbortError"
    THEN {errors[Len(errors)]}
    ELSE {errors[Len(errors)], MainError(errors)}

(***************************************************************************)
(* The CLI specification: calls of the four helpers, under node or bun,    *)
(* against a registry that answers each attempt with any status or not in  *)
(* time.                                                                   *)
(***************************************************************************)
MaxCliCalls == 2

ResponseStatuses == {200, 204, 304, 400, 404, 429, 500, 503}
AttemptOutcomes ==
    {[kind |-> "response", status |-> st] : st \in ResponseStatuses}
        \cup {[kind |-> "timeout", status |-> 0]}

NoCliCall == [calls |-> 0, pc |-> "idle", helper |-> "none", isBun |-> FALSE,
              outcomes |-> <<>>, errors |-> <<>>, raised |-> NoCliError]

CliIdle == cli = NoCliCall

CliInit == cli = NoCliCall

CliCall ==
    /\ cli.pc \in {"idle", "returned", "raised"}
    /\ cli.calls < MaxCliCalls
    /\ \E helper \in CliHelpers, isBun \in BOOLEAN :
           cli' = [calls |-> cli.calls + 1, pc |-> "attempt", helper |-> helper,
                   isBun |-> isBun, outcomes |-> <<>>, errors |-> <<>>,
                   raised |-> NoCliError]
    /\ UNCHANGED notCliVars

\* one run of the function handed to runWithRetries and pRetry's decision
CliAttempt ==
    /\ cli.pc = "attempt"
    /\ \E outcome \in AttemptOutcomes :
           LET r == RequestAttempt(outcome)
               outcomes == Append(cli.outcomes, outcome)
               errors == Append(cli.errors, r.error)
           IN  IF r.ok
               THEN cli' = [cli EXCEPT !.pc = "returned", !.outcomes = outcomes]
               ELSE IF runWithRetries(r.error, Len(outcomes)) = "retry"
                    THEN cli' = [cli EXCEPT !.pc = "sleep", !.outcomes = outcomes,
                                            !.errors = errors]
                    ELSE \E raised \in RaisedErrors(errors) :
                             cli' = [cli EXCEPT !.pc = "raised", !.outcomes = outcomes,
                                                !.errors = errors, !.raised = raised]
    /\ UNCHANGED notCliVars

\* onFailedAttempt: sleep(getRetryDelayMs(attemptError)), then the next attempt
CliRetry ==
    /\ cli.pc = "sleep"
    /\ cli' = [cli EXCEPT !.pc = "attempt"]
    /\ UNCHANGED notCliVars

CliNext ==
    \/ CliCall
    \/ CliAttempt
    \/ CliRetry

(***************************************************************************)
(* Self-rescheduling batch jobs: lib/batching.ts and the two jobs of       *)
(* maintenance.ts that schedule themselves, the action                     *)
(* continueSkillSummaryBackfillJobInternal and the mutation                *)
(* backfillEmbeddingSkillMapInternal.  batch.queue is the scheduler: the   *)
(* jobs handed to scheduler.runAfter(0, ...) and not yet run; batch.log    *)
(* has one entry per finished invocation.  A cursor is the number of rows  *)
(* already paged, 0 for none.                                              *)
(***************************************************************************)
notBatchVars == <<textVars, searchVars, ledgerVars, rateVars, httpVars, maintVars,
    reclaimVars, cliVars, apiVars, qualityVars>>

notMaintBatchVars == <<textVars, searchVars, ledgerVars, rateVars, httpVars,
    reclaimVars, cliVars, apiVars, qualityVars>>

SummaryJobFn == "continueSkillSummaryBackfillJobInternal"
EmbeddingMapFn == "backfillEmbeddingSkillMapInternal"
PagedJobFn == "pagedJob"
BatchFns == {SummaryJobFn, EmbeddingMapFn, PagedJobFn}

NoScheduled == [fn |-> "none", cursor |-> 0, batchSize |-> Undefined, useAi |-> FALSE]

NoBatch == [rows |-> 0, embeddingSkillMap |-> {}, queue |-> <<>>,
            running |-> NoScheduled, log |-> <<>>]

BatchIdle == batch = NoBatch

Scheduled(fn, cursor, batchSize, useAi) ==
    [fn |-> fn, cursor |-> cursor, batchSize |-> batchSize, useAi |-> useAi]

\* ctx.db.query('skillEmbeddings').paginate({cursor, numItems}) over a table
\* of rows documents
Paginate(rows, cursor, numItems) ==
    LET end == Min(rows, cursor + numItems)
    IN  [page |-> (cursor + 1)..end, continueCursor |-> end, isDone |-> end = rows]

\* if (isDone) return; runAfter(0, fn, {...args, cursor: continueCursor ?? undefined})
scheduleNextBatchIfNeeded(queue, fn, jobArgs, isDone, continueCursor) ==
    IF isDone THEN queue
    ELSE Append(queue, [jobArgs EXCEPT !.fn = fn, !.cursor = continueCursor])

\* the handler call of continueSkillSummaryBackfillJobInternal: dryRun false,
\* batchSize ?? DEFAULT_BATCH_SIZE, maxBatches 1
SummaryJobArgs_TwoBatches(job) ==
    [dryRun |-> "false", useAi |-> job.useAi,
     batchSize |-> OrDefault(job.batchSize, DEFAULT_BATCH_SIZE), maxBatches |-> 2]

SummaryJobArgs(job) ==
    [dryRun |-> "false", useAi |-> job.useAi,
     batchSize |-> OrDefault(job.batchSize, DEFAULT_BATCH_SIZE), maxBatches |-> 1]

\* if (!result.isDone && result.cursor) runAfter(0, self, {cursor: result.cursor, ...})
continueSkillSummaryBackfillJobInternal_FromStart(queue, job, result) ==
    IF ~result.isDone /\ result.cursor # 0
    THEN Append(queue, Scheduled(SummaryJobFn, 0,
                                 OrDefault(job.batchSize, DEFAULT_BATCH_SIZE), job.useAi))
    ELSE queue

continueSkillSummaryBackfillJobInternal(queue, job, result) ==
    IF ~result.isDone /\ result.cursor # 0
    THEN Append(queue, Scheduled(SummaryJobFn, result.cursor,
                                 OrDefault(job.batchSize, DEFAULT_BATCH_SIZE), job.useAi))
    ELSE queue

\* the mutation backfillEmbeddingSkillMapInternal: one page of skillEmbeddings,
\* a map row for every embedding that has none, and the successor
backfillEmbeddingSkillMapInternal(b, job) ==
    LET batchSize == clampInt(OrDefault(job.batchSize, 200), 10, 500)
        paged == Paginate(b.rows, job.cursor, batchSize)
        missing == paged.page \ b.embeddingSkillMap
        queue == IF ~paged.isDone
                 THEN Append(b.queue, Scheduled(EmbeddingMapFn, paged.continueCursor,
                                                job.batchSize, FALSE))
                 ELSE b.queue
    IN  [embeddingSkillMap |-> b.embeddingSkillMap \cup missing,
         queue |-> queue,
         result |-> [inserted |-> Cardinality(missing), isDone |-> paged.isDone,
                     scanned |-> Cardinality(paged.page)],
         continueCursor |-> paged.continueCursor]

\* one finished invocation: the job it ran, the pages it fetched, the cursor
\* and the isDone of its last page, and the jobs it handed to the scheduler
Invocation(job, pages, continueCursor, isDone, queueBefore, queueAfter) ==
    [job |-> job, pages |-> pages, continueCursor |-> continueCursor,
     isDone |-> isDone,
     successors |-> SubSeq(queueAfter, Len(queueBefore) + 1, Len(queueAfter))]

MaxEmbeddingRows == 25
MaxInvocations == 5
EmbeddingRowCounts == {0, 10, 11, MaxEmbeddingRows}
BatchSizeArgs == {Undefined, 1, 2, 12}

\* the first invocation of a chain, as npx convex run or an operator starts it
FirstJobs ==
    {Scheduled(SummaryJobFn, 0, batchSize, useAi) :
        batchSize \in {Undefined, 1, 2}, useAi \in BOOLEAN}
    \cup {Scheduled(EmbeddingMapFn, 0, batchSize, FALSE) : batchSize \in BatchSizeArgs}
    \cup {Scheduled(PagedJobFn, 0, batchSize, FALSE) : batchSize \in {10, 12}}

BatchInit ==
    \E first \in FirstJobs, rows \in EmbeddingRowCounts, mapped \in {0, 1, 11} :
        /\ first.fn = SummaryJobFn => rows = 0 /\ mapped = 0
        /\ first.fn = PagedJobFn => mapped = 0
        /\ mapped <= rows
        /\ batch = [NoBatch EXCEPT !.rows = rows, !.embeddingSkillMap = 1..mapped,
                                   !.queue = <<first>>]

\* the scheduler starts continueSkillSummaryBackfillJobInternal, which calls
\* backfillSkillSummariesInternalHandler
RunSummaryJob ==
    /\ batch.queue # <<>>
    /\ batch.running = NoScheduled
    /\ Head(batch.queue).fn = SummaryJobFn
    /\ Len(batch.log) < MaxInvocations
    /\ LET job == Head(batch.queue)
       IN  /\ sweeps' = [sweeps EXCEPT !["job:1"] =
                  BackfillJob("summaries", SummaryJobArgs(job), NoBackfillTotals,
                              job.cursor, 0)]
           /\ batch' = [batch EXCEPT !.queue = Tail(@), !.running = job]
    /\ UNCHANGED <<skills, skillVersions, skillVersionFingerprints, skillBadges,
                   auditLogs, users, dbOut>>
    /\ UNCHANGED notMaintBatchVars

\* the handler has returned: the job schedules its successor and returns
FinishSummaryJob ==
    /\ batch.running.fn = SummaryJobFn
    /\ sweeps["job:1"].kind = "summaries"
    /\ sweeps["job:1"].pc = "done"
    /\ LET job == batch.running
           result == sweeps["job:1"].result
           queue == continueSkillSummaryBackfillJobInternal(batch.queue, job, result)
       IN  batch' = [batch EXCEPT
               !.queue = queue,
               !.running = NoScheduled,
               !.log = Append(@, Invocation(job, sweeps["job:1"].i + 1, result.cursor,
                                            result.isDone, batch.queue, queue))]
    /\ UNCHANGED notBatchVars

RunEmbeddingMapJob ==
    /\ batch.queue # <<>>
    /\ batch.running = NoScheduled
    /\ Head(batch.queue).fn = EmbeddingMapFn
    /\ Len(batch.log) < MaxInvocations
    /\ LET job == Head(batch.queue)
           rest == [batch EXCEPT !.queue = Tail(@)]
           out == backfillEmbeddingSkillMapInternal(rest, job)
       IN  batch' = [rest EXCEPT
               !.embeddingSkillMap = out.embeddingSkillMap,
               !.queue = out.queue,
               !.log = Append(@, Invocation(job, 1, out.continueCursor,
                                            out.result.isDone, rest.queue, out.queue))]
    /\ UNCHANGED notBatchVars

\* a job that pages the table and hands the page's isDone and continueCursor
\* to scheduleNextBatchIfNeeded
RunPagedJob ==
    /\ batch.queue # <<>>
    /\ batch.running = NoScheduled
    /\ Head(batch.queue).fn = PagedJobFn
    /\ Len(batch.log) < MaxInvocations
    /\ LET job == Head(batch.queue)
           rest == Tail(batch.queue)
           paged == Paginate(batch.rows, job.cursor, job.batchSize)
           queue == scheduleNextBatchIfNeeded(rest, PagedJobFn, job, paged.isDone,
                                              paged.continueCursor)
       IN  batch' = [batch EXCEPT
               !.queue = queue,
               !.log = Append(@, Invocation(job, 1, paged.continueCursor,
                                            paged.isDone, rest, queue))]
    /\ UNCHANGED notBatchVars

BatchNext ==
    \/ RunSummaryJob
    \/ SummaryFetchPage("job:1")
    \/ SummaryItem("job:1")
    \/ FinishSummaryJob
    \/ RunEmbeddingMapJob
    \/ RunPagedJob

(***************************************************************************)
(* httpApiV1: the v1 handlers usersPostRouterV1Handler (with               *)
(* handleAdminRestore and handleAdminReclaim), starsPostRouterV1Handler    *)
(* and publishSoulV1Handler.  A handler is an action: each await is a step *)
(* of its own.  trace lists, in order, the calls the handler made:         *)
(* applyRateLimit, the parsing of the body, the authentication, and every  *)
(* runQuery, runMutation and runAction.  How requireApiTokenUser and       *)
(* assertAdmin answer for the caller is part of the request.               *)
(***************************************************************************)
notApiVars == <<textVars, searchVars, ledgerVars, rateVars, httpVars, maintVars,
    reclaimVars, cliVars, batchVars, qualityVars>>

ApiHandlers == {"usersPostRouterV1Handler", "starsPostRouterV1Handler",
                "publishSoulV1Handler"}

UserActions == {"ban", "role", "restore", "reclaim"}

\* upper limits of payload.slugs in handleAdminRestore and handleAdminReclaim
MAX_RESTORE_SLUGS == 100
MAX_RECLAIM_SLUGS == 200

NoPayload == [handle |-> "", userId |-> "", role |-> "", slugs |-> 0,
              reasonTooLong |-> FALSE]

NoApiRequest == [handler |-> "none", segments |-> <<>>, token |-> NoToken,
                 authOk |-> FALSE, adminOk |-> FALSE, payloadOk |-> FALSE,
                 payload |-> NoPayload, contentType |-> "none"]

NoApiCall == [calls |-> 0, pc |-> "idle", req |-> NoApiRequest, rateOk |-> "none",
              trace |-> <<>>, response |-> 0, i |-> 0]

ApiIdle == api = NoApiCall

\* text(...) / json(...): the handler returns a response
Respond(call, status) == [call EXCEPT !.pc = "done", !.response = status]

\* ctx.runQuery / runMutation / runAction and the helpers that await
Called(call, name) == [call EXCEPT !.trace = Append(@, name)]

\* the rate-limit results applyRateLimit may get for a request
ApiRateResults(lim) ==
    {[allowed |-> a, remaining |-> IF a THEN 1 ELSE 0, limit |-> lim,
      resetAt |-> RATE_LIMIT_WINDOW_MS] : a \in BOOLEAN}

\* const rate = await applyRateLimit(ctx, request, 'write');
\* if (!rate.ok) return rate.response
ApplyRateLimitFirst_Skipped(call, answer) ==
    [Called(call, "applyRateLimit") EXCEPT
        !.pc = "route", !.rateOk = IF answer.ok THEN "ok" ELSE "denied"]

ApplyRateLimitFirst(call, answer) ==
    IF ~answer.ok
    THEN [Respond(Called(call, "applyRateLimit"), answer.status) EXCEPT !.rateOk = "denied"]
    ELSE [Called(call, "applyRateLimit") EXCEPT !.pc = "route", !.rateOk = "ok"]

\* usersPostRouterV1Handler up to parseJsonPayload
UsersRoute(call) ==
    LET segments == call.req.segments
    IN  IF Len(segments) # 1 THEN Respond(call, 404)
        ELSE IF segments[1] \notin UserActions THEN Respond(call, 404)
        ELSE [call EXCEPT !.pc = "payload"]

\* requireAdminOrResponse: assertAdmin(user) throws for a caller who is no admin
requireAdminOrResponse_Open(call, next) == [call EXCEPT !.pc = next]

requireAdminOrResponse(call, next) ==
    IF call.req.adminOk THEN [call EXCEPT !.pc = next] ELSE Respond(call, 403)

\* usersPostRouterV1Handler from requireApiTokenUserOrResponse to the first
\* query: the admin gate of restore and reclaim, the checks of ban and role
UsersAfterAuth(call) ==
    LET action == call.req.segments[1]
        payload == call.req.payload
        role == IF payload.role \in {"user", "moderator", "admin"}
                THEN payload.role ELSE "null"
    IN  IF action \in {"restore", "reclaim"}
        THEN requireAdminOrResponse(call, "adminPayload")
        ELSE IF payload.handle = "" /\ payload.userId = "" THEN Respond(call, 400)
        ELSE IF action = "role" /\ payload.role = "" THEN Respond(call, 400)
        ELSE IF action = "role" /\ role = "null" THEN Respond(call, 400)
        ELSE IF payload.userId = "" THEN [call EXCEPT !.pc = "target"]
        ELSE [call EXCEPT !.pc = "act"]

\* handleAdminRestore / handleAdminReclaim up to runQuery(api.users.getByHandle)
AdminValidate(call, maxSlugs) ==
    LET payload == call.req.payload
    IN  IF payload.handle = "" THEN Respond(call, 400)
        ELSE IF payload.slugs = 0 THEN Respond(call, 400)
        ELSE IF payload.slugs > maxSlugs THEN Respond(call, 400)
        ELSE [call EXCEPT !.pc = "target"]

\* the response to a mutation or action that threw, by the error's message
ErrorStatus(message) ==
    IF message = "forbidden" THEN 403
    ELSE IF message = "not found" THEN 404
    ELSE 400

(***************************************************************************)
(* The API specification: requests to the three handlers, one at a time,   *)
(* with any path, body, token and caller, any answer of the limiter and    *)
(* any result of the queries, mutations and actions called.                *)
(***************************************************************************)
MaxApiCalls == 2

\* who sends the request: without a token, with a token that
\* requireApiTokenUser refuses, as a user, as an admin
ApiCallers ==
    {[token |-> NoToken, authOk |-> FALSE, adminOk |-> FALSE],
     [token |-> "token:1", authOk |-> FALSE, adminOk |-> FALSE],
     [token |-> "token:1", authOk |-> TRUE, adminOk |-> FALSE],
     [token |-> "token:1", authOk |-> TRUE, adminOk |-> TRUE]}

\* the payloads of an action of /api/v1/users/, by the fields the action reads
ApiPayloads(action) ==
    IF action \in {"restore", "reclaim"}
    THEN {[NoPayload EXCEPT !.handle = h, !.slugs = n] :
              h \in {"", "alice"}, n \in {0, 2, MAX_RECLAIM_SLUGS + 1}}
    ELSE IF action = "ban"
    THEN {[NoPayload EXCEPT !.handle = h, !.userId = u, !.reasonTooLong = long] :
              h \in {"", "alice"}, u \in {"", "users:2"}, long \in BOOLEAN}
    ELSE {[NoPayload EXCEPT !.handle = h, !.userId = u, !.role = r] :
              h \in {"", "alice"}, u \in {"", "users:2"}, r \in {"", "admin", "owner"}}

ApiRequestOf(handler, segments, caller, payloadOk, payload, contentType) ==
    [handler |-> handler, segments |-> segments, token |-> caller.token,
     authOk |-> caller.authOk, adminOk |-> caller.adminOk, payloadOk |-> payloadOk,
     payload |-> payload, contentType |-> contentType]

ApiRequests ==
    {ApiRequestOf("usersPostRouterV1Handler", segments, caller, TRUE, NoPayload, "json") :
        segments \in {<<>>, <<"unknown">>, <<"reclaim", "extra">>}, caller \in ApiCallers}
    \cup {ApiRequestOf("usersPostRouterV1Handler", <<action>>, caller, FALSE, NoPayload,
                       "json") : action \in UserActions, caller \in ApiCallers}
    \cup UNION {{ApiRequestOf("usersPostRouterV1Handler", <<action>>, caller, TRUE, payload,
                              "json") : caller \in ApiCallers, payload \in ApiPayloads(action)} :
                   action \in UserActions}
    \cup {ApiRequestOf("starsPostRouterV1Handler", segments, caller, TRUE, NoPayload, "json") :
             segments \in {<<>>, <<"remind-me">>}, caller \in ApiCallers}
    \cup {ApiRequestOf("publishSoulV1Handler", <<>>, caller, payloadOk, NoPayload,
                       contentType) :
             caller \in ApiCallers, payloadOk \in BOOLEAN,
             contentType \in {"json", "multipart", "other"}}

ApiInit == api = NoApiCall

ApiRequest ==
    /\ api.pc \in {"idle", "done"}
    /\ api.calls < MaxApiCalls
    /\ \E req \in ApiRequests :
           api' = [calls |-> api.calls + 1, pc |-> "rate", req |-> req,
                   rateOk |-> "none", trace |-> <<>>, response |-> 0, i |-> 0]
    /\ UNCHANGED notApiVars

\* applyRateLimit: the ip scope, and the key scope of a request with a token
ApiApplyRateLimit ==
    /\ api.pc = "rate"
    /\ \E ipResult \in ApiRateResults(RATE_LIMITS["write"].ip),
          keyResult \in IF api.req.token = NoToken THEN {NoResult}
                        ELSE ApiRateResults(RATE_LIMITS["write"].key) :
           api' = ApplyRateLimitFirst(api, ApplyAnswer(ipResult, keyResult, 0))
    /\ UNCHANGED notApiVars

\* the path (users, stars) or the bearer token (publishSoul)
ApiRoute ==
    /\ api.pc = "route"
    /\ api' = CASE api.req.handler = "usersPostRouterV1Handler" -> UsersRoute(api)
              [] api.req.handler = "starsPostRouterV1Handler" ->
                     IF Len(api.req.segments) # 1 THEN Respond(api, 404)
                     ELSE [api EXCEPT !.pc = "auth"]
              [] OTHER ->
                     IF api.req.token = NoToken THEN Respond(api, 401)
                     ELSE [api EXCEPT !.pc = "auth"]
    /\ UNCHANGED notApiVars

\* parseJsonPayload(request, rate.headers)
ApiParsePayload ==
    /\ api.pc = "payload"
    /\ api' = IF api.req.payloadOk
              THEN [Called(api, "parseJsonPayload") EXCEPT !.pc = "auth"]
              ELSE Respond(Called(api, "parseJsonPayload"), 400)
    /\ UNCHANGED notApiVars

\* requireApiTokenUser: publishSoulV1Handler calls it outside any try
ApiAuthenticate ==
    /\ api.pc = "auth"
    /\ LET call == Called(api, "requireApiTokenUser")
       IN  api' = CASE api.req.handler = "usersPostRouterV1Handler" ->
                         IF api.req.authOk THEN UsersAfterAuth(call)
                         ELSE Respond(call, 401)
                  [] api.req.handler = "starsPostRouterV1Handler" ->
                         IF api.req.authOk THEN [call EXCEPT !.pc = "skill"]
                         ELSE Respond(call, 401)
                  [] OTHER ->
                         IF api.req.authOk THEN [call EXCEPT !.pc = "publish"]
                         ELSE Respond(call, 500)
    /\ UNCHANGED notApiVars

\* handleAdminRestore / handleAdminReclaim: the payload checks
ApiAdminValidate ==
    /\ api.pc = "adminPayload"
    /\ api' = AdminValidate(api, IF api.req.segments[1] = "restore"
                                 THEN MAX_RESTORE_SLUGS ELSE MAX_RECLAIM_SLUGS)
    /\ UNCHANGED notApiVars

\* runQuery(api.users.getByHandle, { handle })
ApiGetByHandle ==
    /\ api.pc = "target"
    /\ \E found \in BOOLEAN :
           LET call == Called(api, "runQuery:users.getByHandle")
           IN  api' = IF found THEN [call EXCEPT !.pc = "act"]
                      ELSE Respond(call, 404)
    /\ UNCHANGED notApiVars

\* runAction(internal.githubRestore.restoreUserSkillsFromBackup, ...)
ApiRestore ==
    /\ api.pc = "act"
    /\ api.req.segments[1] = "restore"
    /\ \E outcome \in {"ok", "forbidden", "failed"} :
           LET call == Called(api, "runAction:githubRestore.restoreUserSkillsFromBackup")
           IN  api' = IF outcome = "ok" THEN Respond(call, 200)
                      ELSE IF outcome = "forbidden" THEN Respond(call, 403)
                      ELSE Respond(call, 400)
    /\ UNCHANGED notApiVars

\* for (const slug of slugs) runMutation(internal.skills.reclaimSlugInternal, ...):
\* one slug; whether the mutation throws or not, the loop goes on, and the
\* response after the last slug is 200
ApiReclaimSlug ==
    /\ api.pc = "act"
    /\ api.req.segments[1] = "reclaim"
    /\ LET call == [Called(api, "runMutation:skills.reclaimSlugInternal")
                    EXCEPT !.i = @ + 1]
       IN  api' = IF call.i = api.req.payload.slugs THEN Respond(call, 200) ELSE call
    /\ UNCHANGED notApiVars

\* ban and role: runMutation(internal.users.banUserInternal / setRoleInternal)
ApiBanOrRole ==
    /\ api.pc = "act"
    /\ api.req.segments[1] \in {"ban", "role"}
    /\ \E outcome \in {"ok", "forbidden", "not found", "failed"} :
           LET ban == api.req.segments[1] = "ban"
               call == Called(api, IF ban THEN "runMutation:users.banUserInternal"
                                   ELSE "runMutation:users.setRoleInternal")
           IN  api' = IF ban /\ api.req.payload.reasonTooLong THEN Respond(api, 400)
                      ELSE IF outcome = "ok" THEN Respond(call, 200)
                      ELSE Respond(call, ErrorStatus(outcome))
    /\ UNCHANGED notApiVars

\* runQuery(internal.skills.getSkillBySlugInternal, { slug })
ApiStarsSkill ==
    /\ api.pc = "skill"
    /\ \E outcome \in {"found", "missing", "threw"} :
           LET call == Called(api, "runQuery:skills.getSkillBySlugInternal")
           IN  api' = IF outcome = "found" THEN [call EXCEPT !.pc = "star"]
                      ELSE IF outcome = "missing" THEN Respond(call, 404)
                      ELSE Respond(call, 401)
    /\ UNCHANGED notApiVars

\* runMutation(internal.stars.addStarInternal, ...); any throw answers 401
ApiStarsAdd ==
    /\ api.pc = "star"
    /\ \E threw \in BOOLEAN :
           LET call == Called(api, "runMutation:stars.addStarInternal")
           IN  api' = IF threw THEN Respond(call, 401) ELSE Respond(call, 200)
    /\ UNCHANGED notApiVars

\* publishSoulV1Handler: the body by content type, publishSoulVersionForUser
ApiPublish ==
    /\ api.pc = "publish"
    /\ \E threw \in BOOLEAN :
           LET parsed == Called(api, IF api.req.contentType = "json" THEN "request.json"
                                     ELSE "parseMultipartPublish")
               call == Called(parsed, "publishSoulVersionForUser")
           IN  api' = IF api.req.contentType = "other" THEN Respond(api, 415)
                      ELSE IF ~api.req.payloadOk THEN Respond(parsed, 400)
                      ELSE IF threw THEN Respond(call, 400)
                      ELSE Respond(call, 200)
    /\ UNCHANGED notApiVars

ApiNext ==
    \/ ApiRequest
    \/ ApiApplyRateLimit
    \/ ApiRoute
    \/ ApiParsePayload
    \/ ApiAuthenticate
    \/ ApiAdminValidate
    \/ ApiGetByHandle
    \/ ApiRestore
    \/ ApiReclaimSlug
    \/ ApiBanOrRole
    \/ ApiStarsSkill
    \/ ApiStarsAdd
    \/ ApiPublish

(***************************************************************************)
(* lib/skillQuality.ts: evaluateQuality, as its contract (4.3) describes   *)
(* it: a weighted score of the signals (word diversity, structure,         *)
(* templated boilerplate, generic summary), held against a threshold that  *)
(* is stricter for a submitter of lower trust, and a penalty for similar   *)
(* recent submissions.  Ratios are percentages.  maintenance.ts calls it   *)
(* with the signals of the readme, the owner's trust tier and              *)
(* similarRecentCount = 0.                                                 *)
(***************************************************************************)
notQualityVars == <<textVars, searchVars, ledgerVars, rateVars, httpVars, maintVars,
    reclaimVars, cliVars, apiVars, batchVars>>

TrustTiers == {"low", "medium", "trusted"}

QualityThreshold(trustTier) ==
    IF trustTier = "low" THEN 50 ELSE IF trustTier = "medium" THEN 40 ELSE 30

QualityScore(signals) ==
    LET diversity == signals.uniqueWordRatio \div 2
        structure == 5 * Min(signals.headingCount, 3) + 2 * Min(signals.bulletCount, 5)
        body == Min(signals.wordCount, 200) \div 10
        boilerplate == 15 * signals.templateMarkerHits
        generic == IF signals.genericSummaryFlag THEN 20 ELSE 0
    IN  Max(0, diversity + structure + body - boilerplate - generic)

SimilarPenalty(similarRecentCount) == 5 * Min(similarRecentCount, 5)

\* Mutant: the threshold tightens with the time of the evaluation
evaluateQuality_Aging(input, t) ==
    LET score == QualityScore(input.signals)
        accept == score - SimilarPenalty(input.similarRecentCount)
                      >= QualityThreshold(input.trustTier) + 10 * t
    IN  [decision |-> IF accept THEN "accept" ELSE "reject", score |-> score,
         reason |-> IF accept THEN "ok" ELSE "low-signal"]

evaluateQuality(input, t) ==
    LET score == QualityScore(input.signals)
        effective == score - SimilarPenalty(input.similarRecentCount)
        accept == effective >= QualityThreshold(input.trustTier)
    IN  [decision |-> IF accept THEN "accept" ELSE "reject",
         score |-> score,
         reason |-> IF accept THEN "ok"
                    ELSE IF score >= QualityThreshold(input.trustTier) THEN "similar-recent"
                    ELSE IF input.signals.templateMarkerHits > 0 THEN "templated"
                    ELSE IF input.signals.genericSummaryFlag THEN "generic-summary"
                    ELSE "low-signal"]

(***************************************************************************)
(* The quality specification: evaluations of any of a few documents for    *)
(* any trust tier, in any order, while time passes.                        *)
(***************************************************************************)
MaxEvaluations == 2
MaxQualityTime == 2

Signals(words, ratio, headings, bullets, hits, generic) ==
    [bodyLength |-> 6 * words, wordCount |-> words, uniqueWordRatio |-> ratio,
     headingCount |-> headings, bulletCount |-> bullets, templateMarkerHits |-> hits,
     genericSummaryFlag |-> generic, nonLatinCharCount |-> 0]

\* an empty readme, the scaffold's template, a short note, a full document
SignalSets ==
    {Signals(0, 0, 0, 0, 0, TRUE), Signals(40, 50, 2, 3, 2, TRUE),
     Signals(60, 70, 1, 0, 0, FALSE), Signals(300, 60, 4, 8, 0, FALSE)}

QualityInputs ==
    [signals : SignalSets, trustTier : TrustTiers, similarRecentCount : {0, 2, 6}]

NoQuality == [now |-> 0, evaluations |-> {}, n |-> 0]

QualityIdle == quality = NoQuality

QualityInit == quality = NoQuality

QualityTick ==
    /\ quality.now < MaxQualityTime
    /\ quality' = [quality EXCEPT !.now = @ + 1]
    /\ UNCHANGED notQualityVars

\* const quality = evaluateQuality({ signals, trustTier, similarRecentCount })
Evaluate ==
    /\ quality.n < MaxEvaluations
    /\ \E input \in QualityInputs :
           quality' = [quality EXCEPT
               !.n = @ + 1,
               !.evaluations = @ \cup {[input |-> input, at |-> quality.now, nth |-> quality.n + 1,
                                        output |-> evaluateQuality(input, quality.now)]}]
    /\ UNCHANGED notQualityVars

QualityNext ==
    \/ QualityTick
    \/ Evaluate

(***************************************************************************)
(* Specifications                                                          *)
(***************************************************************************)
LedgerSpecInit == LedgerInit /\ TextIdle /\ SearchIdle /\ RateIdle /\ HttpIdle /\ MaintIdle
    /\ ReclaimIdle /\ CliIdle /\ ApiIdle /\ BatchIdle /\ QualityIdle

LedgerSpec == LedgerSpecInit /\ [][LedgerNext]_vars

LedgerDuplicatesSpecInit ==
    LedgerDuplicatesInit /\ TextIdle /\ SearchIdle /\ RateIdle /\ HttpIdle /\ MaintIdle
    /\ ReclaimIdle /\ CliIdle /\ ApiIdle /\ BatchIdle /\ QualityIdle

LedgerDuplicatesSpec == LedgerDuplicatesSpecInit /\ [][LedgerNext]_vars

BadgeSpecInit ==
    BadgeInit /\ TextIdle /\ SearchIdle /\ LedgerIdle /\ RateIdle /\ HttpIdle
    /\ ReclaimIdle /\ CliIdle /\ ApiIdle /\ BatchIdle /\ QualityIdle

BadgeSpec == BadgeSpecInit /\ [][BadgeNext]_vars

CleanupSpecInit ==
    CleanupInit /\ TextIdle /\ SearchIdle /\ LedgerIdle /\ RateIdle /\ HttpIdle
    /\ ReclaimIdle /\ CliIdle /\ ApiIdle /\ BatchIdle /\ QualityIdle

CleanupSpec == CleanupSpecInit /\ [][CleanupNext]_vars

NominateSpecInit ==
    NominateInit /\ TextIdle /\ SearchIdle /\ LedgerIdle /\ RateIdle /\ HttpIdle
    /\ ReclaimIdle /\ CliIdle /\ ApiIdle /\ BatchIdle /\ QualityIdle

NominateSpec == NominateSpecInit /\ [][NominateNext]_vars

SweepSpecInit ==
    CleanupInit /\ TextIdle /\ SearchIdle /\ LedgerIdle /\ RateIdle /\ HttpIdle
    /\ ReclaimIdle /\ CliIdle /\ ApiIdle /\ BatchIdle /\ QualityIdle

SweepSpec == SweepSpecInit /\ [][SweepNext]_vars

BackfillSpecInit ==
    BackfillInit /\ TextIdle /\ SearchIdle /\ LedgerIdle /\ RateIdle /\ HttpIdle
    /\ ReclaimIdle /\ CliIdle /\ ApiIdle /\ BatchIdle /\ QualityIdle

BackfillSpec == BackfillSpecInit /\ [][BackfillNext]_vars

ReclaimSpecInit == ReclaimInit /\ TextIdle /\ SearchIdle /\ RateIdle /\ HttpIdle
    /\ CliIdle /\ ApiIdle /\ BatchIdle /\ QualityIdle

ReclaimSpec == ReclaimSpecInit /\ [][ReclaimNext]_vars

RateSpecInit == RateInit /\ TextIdle /\ SearchIdle /\ LedgerIdle /\ HttpIdle /\ MaintIdle
    /\ ReclaimIdle /\ CliIdle /\ ApiIdle /\ BatchIdle /\ QualityIdle

RateSpec == RateSpecInit /\ [][RateNext]_vars

RateSeqSpecInit == RateSeqInit /\ TextIdle /\ SearchIdle /\ LedgerIdle /\ HttpIdle /\ MaintIdle
    /\ ReclaimIdle /\ CliIdle /\ ApiIdle /\ BatchIdle /\ QualityIdle

RateSeqSpec == RateSeqSpecInit /\ [][RateSeqNext]_vars

RateStubSpecInit == RateStubInit /\ TextIdle /\ SearchIdle /\ LedgerIdle /\ HttpIdle /\ MaintIdle
    /\ ReclaimIdle /\ CliIdle /\ ApiIdle /\ BatchIdle /\ QualityIdle

RateStubSpec == RateStubSpecInit /\ [][RateStubNext]_vars

ClientIpSpecInit == ClientIpInit /\ TextIdle /\ SearchIdle /\ LedgerIdle /\ MaintIdle
    /\ ReclaimIdle /\ CliIdle /\ ApiIdle /\ BatchIdle /\ QualityIdle

ClientIpSpec == ClientIpSpecInit /\ [][ClientIpNext]_vars

TextSpecInit == TextInit /\ SearchIdle /\ LedgerIdle /\ RateIdle /\ HttpIdle /\ MaintIdle
    /\ ReclaimIdle /\ CliIdle /\ ApiIdle /\ BatchIdle /\ QualityIdle

TextSpec == TextSpecInit /\ [][TextNext]_vars

SearchSpecInit == SearchInit /\ TextIdle /\ LedgerIdle /\ RateIdle /\ HttpIdle /\ MaintIdle
    /\ ReclaimIdle /\ CliIdle /\ ApiIdle /\ BatchIdle /\ QualityIdle

SearchSpec == SearchSpecInit /\ [][SearchNext]_vars

CliSpecInit ==
    CliInit /\ TextIdle /\ SearchIdle /\ LedgerIdle /\ RateIdle /\ HttpIdle /\ MaintIdle
    /\ ReclaimIdle /\ ApiIdle /\ BatchIdle /\ QualityIdle

CliSpec == CliSpecInit /\ [][CliNext]_vars

ApiSpecInit ==
    ApiInit /\ TextIdle /\ SearchIdle /\ LedgerIdle /\ RateIdle /\ HttpIdle /\ MaintIdle
    /\ ReclaimIdle /\ CliIdle /\ BatchIdle /\ QualityIdle

ApiSpec == ApiSpecInit /\ [][ApiNext]_vars

QualitySpecInit ==
    QualityInit /\ TextIdle /\ SearchIdle /\ LedgerIdle /\ RateIdle /\ HttpIdle /\ MaintIdle
    /\ ReclaimIdle /\ CliIdle /\ ApiIdle /\ BatchIdle

QualitySpec == QualitySpecInit /\ [][QualityNext]_vars

BatchSpecInit ==
    BackfillInit /\ BatchInit /\ TextIdle /\ SearchIdle /\ LedgerIdle /\ RateIdle
    /\ HttpIdle /\ ReclaimIdle /\ CliIdle /\ ApiIdle /\ QualityIdle

BatchSpec == BatchSpecInit /\ [][BatchNext]_vars

\* the scheduler runs every job handed to runAfter, and an action that has
\* started runs to its end
BatchFairSpec == BatchSpec /\ WF_vars(BatchNext)

(***************************************************************************)
(* Properties of the search resolver                                       *)
(***************************************************************************)
IsWordChar(c) == ToLowerCase(c) \in WORD_RE

\* tok occurs in part as a whole word: a run of word characters that equals tok
\* after lowercasing and is not preceded or followed by a word character
HasWholeToken(tok, part) ==
    /\ part # Null
    /\ tok # <<>>
    /\ \E i \in 1..Len(part) :
          LET j == i + Len(tok) - 1
          IN  /\ j <= Len(part)
              /\ \A k \in 1..Len(tok) : tok[k] \in WORD_RE /\ ToLowerCase(part[i + k - 1]) = tok[k]
              /\ (i = 1 \/ ~IsWordChar(part[i - 1]))
              /\ (j = Len(part) \/ ~IsWordChar(part[j + 1]))

\* every token of toks is a whole word of one of the parts
ContainsEveryToken(toks, parts) ==
    \A t \in DOMAIN toks : \E p \in DOMAIN parts : HasWholeToken(toks[t], parts[p])

\* the query holds no word character at all
QueryHasNoToken(q) == \A i \in DOMAIN q : ~IsWordChar(q[i])

RequestedLimit == IF args.limit = Undefined THEN 10 ELSE args.limit

C5_NextWindowStrictlyLarger ==
    (spc = "loop" /\ windows # <<>>) =>
        /\ candidateLimit > windows[Len(windows)]
        /\ candidateLimit <= maxCandidate

\* Below the cap the loop does widen: such a round is followed by a round with
\* a strictly larger window, at most the cap.
WideningBelowCap ==
    [][ ( /\ spc = "loop" /\ candidateLimit < maxCandidate
          /\ Len(exactMatches') < limit
          /\ Len(scoreById') = candidateLimit )
        => ( /\ spc' = "loop"
             /\ candidateLimit' > candidateLimit
             /\ candidateLimit' <= maxCandidate ) ]_vars

\* the number of windows from w up to the cap, each twice the one before
\* (the last one cut to the cap)
RECURSIVE WindowChain(_, _)
WindowChain(w, cap) ==
    IF w > cap THEN 0
    ELSE IF w = cap THEN 1
    ELSE 1 + WindowChain(Min(2 * w, cap), cap)

\* C6: the search performs a bounded number of neighbor-search rounds: no more
\* rounds than there are windows between the first window and the cap.
C6_BoundedRounds ==
    spc \in {"loop", "return", "done"} =>
        searchCalls <= WindowChain(Max(limit * 3, 50), Min(Max(limit * 10, 200), 1000))

\* C7 as claimed: the first window is max(limit*3, 50), every later window is twice
\* the one before, and no window exceeds min(limit*10, 1000).
C7_WindowsAsClaimed ==
    \A i \in DOMAIN windows :
        /\ i = 1 => windows[i] = Max(limit * 3, 50)
        /\ i > 1 => windows[i] = 2 * windows[i - 1]
        /\ windows[i] <= Min(limit * 10, 1000)

\* C7 amended: the first window is max(limit*3, 50), every later window is
\* min(2 * previous, cap), and no window exceeds cap = min(max(limit*10, 200), 1000).
C7_WindowsAsCoded ==
    \A i \in DOMAIN windows :
        /\ i = 1 => windows[i] = Max(limit * 3, 50)
        /\ i > 1 => windows[i] = Min(2 * windows[i - 1], Min(Max(limit * 10, 200), 1000))
        /\ windows[i] <= Min(Max(limit * 10, 200), 1000)

\* C7 witness: a third window that is the cap, above limit*10 and below twice the second
C7_Witness ==
    /\ Len(windows) >= 3
    /\ windows[3] > limit * 10
    /\ windows[3] < 2 * windows[2]

\* C9: the returned results are ordered by similarity score, highest first.
C9_SortedByScore ==
    spc = "done" =>
        \A i \in DOMAIN returned : \A j \in DOMAIN returned :
            i < j => returned[i].score >= returned[j].score

\* C9 witness: results with different scores are returned
C9_Witness ==
    /\ spc = "done"
    /\ \E i \in DOMAIN returned : \E j \in DOMAIN returned :
          i < j /\ returned[i].score > returned[j].score

\* C10: a query that is empty after trimming, or that holds no token, returns the
\* empty list in one step, with no call of generateEmbedding or vectorSearch.
C10_EmptyQueryReturnsAtOnce ==
    (spc # "idle" /\ (Trim(args.query) = <<>> \/ QueryHasNoToken(args.query))) =>
        /\ spc \in {"start", "done"}
        /\ returned = <<>>
        /\ embedCalls = 0
        /\ searchCalls = 0

\* C10 witness: a query of punctuation only (not empty after trimming) has returned
C10_Witness ==
    spc = "done" /\ Trim(args.query) # <<>> /\ QueryHasNoToken(args.query)

(***************************************************************************)
(* Properties of searchText                                                *)
(***************************************************************************)
\* C8: matchesExactTokens is true exactly when there is a query token and every
\* query token is a whole word of some part; "remind me" matches "Remind Me" and
\* does not match "Reminder Tool".
C8_MatchesExactlyWholeTokens ==
    tpc = "done" =>
        /\ tresult = (ttokens # <<>> /\ ContainsEveryToken(ttokens, tparts))
        /\ (tquery = Str_remind_me /\ tparts = Parts_RemindMe) => tresult
        /\ (tquery = Str_remind_me /\ tparts = Parts_ReminderTool) => ~tresult

\* C8 witness: "remind me" against "Reminder tool" was rejected although "remind"
\* is a prefix of "reminder"
C8_Witness ==
    tpc = "done" /\ tquery = Str_remind_me /\ tparts = Parts_ReminderTool /\ ~tresult

(***************************************************************************)
(* Properties of the reserved-slug ledger                                  *)
(***************************************************************************)
\* C1: starting from the empty ledger, after any sequence of delete, create
\* and reclaim calls (any slug, owner and timestamps), at most one
\* reservedSlugs record of a slug has releasedAt unset.
C1_AtMostOneActivePerSlug ==
    \A slug \in Slugs : Cardinality(ActiveIds(reservedSlugs, slug)) <= 1

\* a slug reserved again after an earlier reservation of it was released
C1_Witness ==
    /\ ledgerOut.op \in {"delete", "reclaim"}
    /\ \E slug \in Slugs :
           /\ Cardinality(ActiveIds(reservedSlugs, slug)) = 1
           /\ ReleasedIds(reservedSlugs, slug) # {}

\* the reservations of the last call's slug that were active before it, and
\* the latest of them (NoId when there was none)
PriorActive == ActiveIds(ledgerOut.before, ledgerOut.params.slug)
PriorLatest == LatestOf(reservedSlugQuery(ledgerOut.before, ledgerOut.params.slug))
NowActive == ActiveIds(reservedSlugs, ledgerOut.params.slug)

C17_Witness ==
    /\ ledgerOut.op = "delete"
    /\ PriorActive = {}
    /\ ReleasedIds(ledgerOut.before, ledgerOut.params.slug) # {}
    /\ \E i \in NowActive :
           /\ i = Len(reservedSlugs)
           /\ reservedSlugs[i].originalOwnerUserId = ledgerOut.params.originalOwnerUserId
           /\ reservedSlugs[i].expiresAt = ledgerOut.params.expiresAt

PriorActiveOfOwner ==
    {i \in PriorActive :
        ledgerOut.before[i].originalOwnerUserId = ledgerOut.params.originalOwnerUserId}

\* C18: a delete by the owner of an active reservation of the slug extends
\* that reservation in place: the table gains no record, and the record has
\* the new deletedAt and expiresAt, is otherwise as it was and stays active.
C18_SameOwnerDeleteExtendsInPlace ==
    (ledgerOut.op = "delete" /\ PriorActiveOfOwner # {}) =>
        /\ Len(reservedSlugs) = Len(ledgerOut.before)
        /\ \A i \in PriorActiveOfOwner :
               reservedSlugs[i] =
                   [ledgerOut.before[i] EXCEPT !.deletedAt = ledgerOut.params.deletedAt,
                                               !.expiresAt = ledgerOut.params.expiresAt]

\* the owner's second delete moved both deletedAt and expiresAt of the
\* reservation the first one made
C18_Witness ==
    /\ ledgerOut.op = "delete"
    /\ \E i \in PriorActiveOfOwner :
           /\ ledgerOut.before[i].deletedAt # ledgerOut.params.deletedAt
           /\ ledgerOut.before[i].expiresAt # ledgerOut.params.expiresAt
           /\ reservedSlugs[i].deletedAt = ledgerOut.params.deletedAt
           /\ reservedSlugs[i].expiresAt = ledgerOut.params.expiresAt
           /\ reservedSlugs[i].releasedAt = Undefined

\* the reservations active before the last call that hold the slug against
\* its caller: not yet expired at the call's now, and of another owner
PriorHolding ==
    {i \in PriorActive :
        /\ ledgerOut.params.now < ledgerOut.before[i].expiresAt
        /\ ledgerOut.before[i].originalOwnerUserId # ledgerOut.params.userId}

\* C19: enforceReservedSlugCooldownForNewSkill throws exactly when the slug's
\* active reservation has now < expiresAt and an owner other than the
\* requester; the error names the slug and the reservation's expiresAt; a
\* rejected request leaves every reservation record as it was.
C19_RejectedExactlyWhenHeldByAnother ==
    ledgerOut.op = "create" =>
        /\ ~ledgerOut.ok <=> PriorHolding # {}
        /\ ~ledgerOut.ok =>
               /\ reservedSlugs = ledgerOut.before
               /\ ledgerOut.error.slug = ledgerOut.params.slug
               /\ \E i \in PriorHolding :
                      ledgerOut.error.until = ledgerOut.before[i].expiresAt
        /\ ledgerOut.ok => ledgerOut.error = NoError

\* another user's creation one instant before expiresAt was rejected
C19_Witness ==
    /\ ledgerOut.op = "create"
    /\ ~ledgerOut.ok
    /\ \E i \in PriorActive :
           /\ ledgerOut.before[i].expiresAt = ledgerOut.params.now + 1
           /\ ledgerOut.before[i].originalOwnerUserId # ledgerOut.params.userId
           /\ reservedSlugs[i].releasedAt = Undefined

\* another user's creation at expiresAt was let through
C19_WitnessAtExpiry ==
    /\ ledgerOut.op = "create"
    /\ ledgerOut.ok
    /\ \E i \in PriorActive :
           /\ ledgerOut.before[i].expiresAt = ledgerOut.params.now
           /\ ledgerOut.before[i].originalOwnerUserId # ledgerOut.params.userId

\* C20: a creation by the reserved owner, or at or after expiresAt, returns
\* normally, and after a normal return no reservation of the slug is
\* active: the one that was active has releasedAt = now and is otherwise as
\* it was.
C20_PermittedCreationReleases ==
    ledgerOut.op = "create" =>
        /\ (\A i \in PriorActive :
                \/ ledgerOut.before[i].originalOwnerUserId = ledgerOut.params.userId
                \/ ledgerOut.params.now >= ledgerOut.before[i].expiresAt)
               => ledgerOut.ok
        /\ ledgerOut.ok =>
               /\ NowActive = {}
               /\ Len(reservedSlugs) = Len(ledgerOut.before)
               /\ \A i \in PriorActive :
                      reservedSlugs[i] =
                          [ledgerOut.before[i] EXCEPT !.releasedAt = ledgerOut.params.now]

\* the owner republished before expiry and the reservation was released
C20_Witness ==
    /\ ledgerOut.op = "create"
    /\ ledgerOut.ok
    /\ NowActive = {}
    /\ \E i \in PriorActive :
           /\ ledgerOut.before[i].originalOwnerUserId = ledgerOut.params.userId
           /\ ledgerOut.params.now < ledgerOut.before[i].expiresAt
           /\ reservedSlugs[i].releasedAt = ledgerOut.params.now

\* C21: after upsertReservedSlugForRightfulOwner(slug, R) the slug has
\* exactly one active reservation, held by R with the given deletedAt and
\* expiresAt, whatever the expiresAt of the reservation found; a reservation
\* that was active is re-pointed in place and the table gains no record.
C21_ReclaimRepointsAtOnce ==
    ledgerOut.op = "reclaim" =>
        /\ Cardinality(NowActive) = 1
        /\ \A i \in NowActive :
               /\ reservedSlugs[i].originalOwnerUserId =
                      ledgerOut.params.rightfulOwnerUserId
               /\ reservedSlugs[i].deletedAt = ledgerOut.params.deletedAt
               /\ reservedSlugs[i].expiresAt = ledgerOut.params.expiresAt
        /\ PriorActive # {} =>
               /\ NowActive \subseteq PriorActive
               /\ Len(reservedSlugs) = Len(ledgerOut.before)
        /\ PriorActive = {} =>
               /\ NowActive = {Len(reservedSlugs)}
               /\ Len(reservedSlugs) = Len(ledgerOut.before) + 1

\* a reservation of another owner, not yet expired at the reclaim, now
\* points at the rightful owner
C21_Witness ==
    /\ ledgerOut.op = "reclaim"
    /\ \E i \in PriorActive :
           /\ ledgerOut.before[i].originalOwnerUserId #
                  ledgerOut.params.rightfulOwnerUserId
           /\ ledgerOut.before[i].expiresAt > ledgerOut.params.deletedAt
           /\ reservedSlugs[i].originalOwnerUserId = ledgerOut.params.rightfulOwnerUserId
           /\ reservedSlugs[i].releasedAt = Undefined

\* C23: whatever the number of active reservations of a slug before it, a
\* delete, reclaim or create call on the slug leaves at most one of them
\* active.
C23_CallCollapsesToOneSurvivor ==
    ledgerOut.op \in {"delete", "reclaim", "create"} =>
        Cardinality(NowActive) <= 1

\* the reservations a call lists: of those active before it, the
\* DEFAULT_ACTIVE_LIMIT latest
PriorListed ==
    {i \in PriorActive :
        Cardinality({j \in PriorActive : IndexDescBefore(ledgerOut.before, j, i)})
            < DEFAULT_ACTIVE_LIMIT}

\* C23 as coded: a rejected create leaves the table as it was; any other
\* delete, reclaim or create call leaves at most one of the reservations it
\* listed active, hence at most one active reservation of the slug when at
\* most DEFAULT_ACTIVE_LIMIT were active before.
C23_ListedCollapseToOneSurvivor ==
    ledgerOut.op \in {"delete", "reclaim", "create"} =>
        IF ~ledgerOut.ok
        THEN reservedSlugs = ledgerOut.before
        ELSE /\ Cardinality(NowActive \cap PriorListed) <= 1
             /\ Cardinality(PriorActive) <= DEFAULT_ACTIVE_LIMIT =>
                    Cardinality(NowActive) <= 1

\* a delete found DEFAULT_ACTIVE_LIMIT active reservations and left one
C23_Witness ==
    /\ ledgerOut.op = "delete"
    /\ Cardinality(PriorActive) = DEFAULT_ACTIVE_LIMIT
    /\ Cardinality(NowActive) = 1

\* a delete found one active reservation more than it lists and left two
OverLimitLeavesTwo ==
    /\ ledgerOut.op = "delete"
    /\ Cardinality(PriorActive) = DEFAULT_ACTIVE_LIMIT + 1
    /\ Cardinality(NowActive) = 2

\* a permitted create found three active reservations and left none
C23_WitnessCreate ==
    /\ ledgerOut.op = "create"
    /\ ledgerOut.ok
    /\ Cardinality(PriorActive) = 3
    /\ NowActive = {}

(***************************************************************************)
(* Properties of the rate limiter                                          *)
(***************************************************************************)
\* C2: for any scope key and limit N, under any interleaving of concurrent
\* checkRateLimit calls whose consume either commits atomically or fails
\* with a write conflict, the calls that return allowed = true within one
\* window never number more than N.
C2_AtMostLimitAllowedPerWindow ==
    \A key \in ScopeKeys : \A lim \in GrantLimits : granted[key].allowed[lim] <= lim

\* the window is used up, and a call that passed its probe lost the race
C2_Witness ==
    \E c \in Callers :
        /\ calls[c].pc = "returned"
        /\ calls[c].status.allowed
        /\ ~calls[c].result.allowed
        /\ granted[calls[c].key].windowStart = WindowStartOf(now, RATE_LIMIT_WINDOW_MS)
        /\ granted[calls[c].key].allowed[calls[c].limit] = calls[c].limit

\* the request just answered, when it and all requests answered before it in
\* its window lie inside that window
AnsweredInWindow(c) ==
    /\ requests[c].pc = "done"
    /\ served[requests[c].ip].clean
    /\ served[requests[c].ip].windowStart =
           WindowStartOf(requests[c].startedAt, RATE_LIMIT_WINDOW_MS)

\* C3: of the sequential requests from one address inside one window, with
\* ip limit N, each of the first N is allowed by the ip scope (and answered
\* ok unless the key scope denies), and the (N+1)th is denied: HTTP 429 with
\* remaining = 0.
C3_FirstNAllowedNextDenied ==
    \A c \in SeqClients :
        AnsweredInWindow(c) =>
            LET r == requests[c]
                nth == served[r.ip].n
                N == RATE_LIMITS[r.kind].ip
            IN  /\ nth <= N =>
                       /\ r.ipResult.allowed
                       /\ (r.keyResult = NoResult \/ r.keyResult.allowed) => r.ok
                /\ nth = N + 1 =>
                       /\ ~r.ipResult.allowed
                       /\ ~r.ok
                       /\ r.status = 429
                       /\ r.ipResult.remaining = 0
                       /\ r.headers.xRemaining = 0
                       /\ r.headers.remaining = 0

\* the 21st download request of a window, denied
C3_Witness ==
    \E c \in SeqClients :
        /\ AnsweredInWindow(c)
        /\ requests[c].kind = "download"
        /\ served[requests[c].ip].n = RATE_LIMITS.download.ip + 1
        /\ requests[c].status = 429

\* C11: applyRateLimit lets a request proceed (ok) if and only if the ip scope
\* allows it and, when a bearer token is present, the key scope allows it too;
\* in every other case the answer is a 429 response.
C11_OkIffEveryCheckedScopeAllows ==
    \A c \in SeqClients :
        requests[c].pc = "done" =>
            LET r == requests[c]
                everyScopeAllows ==
                    /\ r.ipResult.allowed
                    /\ r.token # NoToken => r.keyResult.allowed
            IN  /\ r.ok <=> everyScopeAllows
                /\ ~r.ok => r.status = 429
                /\ r.ok => r.status # 429

\* a request with a token that the ip scope allows and the key scope denies
C11_Witness ==
    \E c \in SeqClients :
        /\ requests[c].pc = "done"
        /\ requests[c].token # NoToken
        /\ requests[c].ipResult.allowed
        /\ ~requests[c].keyResult.allowed
        /\ requests[c].status = 429

\* the response's rate-limit metadata is that of this scope's result
ReportsScope(headers, result) ==
    /\ headers.xLimit = result.limit
    /\ headers.limit = result.limit
    /\ headers.xRemaining = result.remaining
    /\ headers.remaining = result.remaining
    /\ headers.xReset * 1000 >= result.resetAt
    /\ (headers.xReset - 1) * 1000 < result.resetAt
    /\ (headers.retryAfter = Undefined) <=> result.allowed

\* a is strictly less restrictive than b: a allows where b denies, or both
\* allow and a has more remaining
LessRestrictive(a, b) ==
    \/ a.allowed /\ ~b.allowed
    \/ a.allowed /\ b.allowed /\ a.remaining > b.remaining

\* C12: when both scopes are checked, the response's metadata (limit,
\* remaining, reset) is that of the more restrictive scope: the denying scope
\* when exactly one denies, the scope with the smaller remaining when both
\* allow; the reported scope is never less restrictive than the other.
C12_MetadataOfMoreRestrictiveScope ==
    \A c \in SeqClients :
        (requests[c].pc = "done" /\ requests[c].token # NoToken) =>
            LET r == requests[c]
                ip == r.ipResult
                key == r.keyResult
            IN  /\ (~ip.allowed /\ key.allowed) => ReportsScope(r.headers, ip)
                /\ (ip.allowed /\ ~key.allowed) => ReportsScope(r.headers, key)
                /\ (ip.allowed /\ key.allowed /\ ip.remaining < key.remaining)
                       => ReportsScope(r.headers, ip)
                /\ (ip.allowed /\ key.allowed /\ key.remaining < ip.remaining)
                       => ReportsScope(r.headers, key)
                /\ \/ ReportsScope(r.headers, ip) /\ ~LessRestrictive(ip, key)
                   \/ ReportsScope(r.headers, key) /\ ~LessRestrictive(key, ip)

\* both scopes allow and the key scope, with less remaining, is the one reported
C12_Witness ==
    \E c \in SeqClients :
        /\ requests[c].pc = "done"
        /\ requests[c].token # NoToken
        /\ requests[c].ipResult.allowed
        /\ requests[c].keyResult.allowed
        /\ requests[c].keyResult.remaining < requests[c].ipResult.remaining
        /\ requests[c].headers.xRemaining = requests[c].keyResult.remaining
        /\ requests[c].headers.xLimit = requests[c].keyResult.limit

\* C13: when the consume mutation fails with a rate-limit write conflict,
\* checkRateLimit returns a denial (allowed = false, remaining = 0, limit and
\* resetAt those of the probe) and does not retry: a call invokes the consume
\* mutation at most once.
C13_ConflictDeniesWithoutRetry ==
    \A c \in SeqClients :
        /\ calls[c].consumes <= 1
        /\ calls[c].outcome = "conflict" =>
               /\ calls[c].pc = "returned"
               /\ calls[c].consumes = 1
               /\ ~calls[c].result.allowed
               /\ calls[c].result.remaining = 0
               /\ calls[c].result.limit = calls[c].status.limit
               /\ calls[c].result.resetAt = calls[c].status.resetAt

\* a call whose probe allowed with budget left and whose consume hit a conflict
C13_Witness ==
    \E c \in SeqClients :
        /\ calls[c].outcome = "conflict"
        /\ calls[c].pc = "returned"
        /\ calls[c].status.allowed
        /\ calls[c].status.remaining > 0
        /\ ~calls[c].result.allowed

\* C14: when the probe of a scope reports allowed = false, checkRateLimit
\* returns the probe's result unchanged and never issues the consume mutation,
\* so a probe-denied call writes nothing to the scope's counter.
C14_ProbeDenialSkipsConsume ==
    \A c \in Callers :
        (calls[c].pc \in {"consume", "returned"} /\ ~calls[c].status.allowed) =>
            /\ calls[c].pc = "returned"
            /\ calls[c].outcome = "probe"
            /\ calls[c].result = calls[c].status
            /\ calls[c].consumes = 0

\* the probe step of a call changes no counter
ProbeWritesNothing ==
    [][ \A c \in Callers :
            (calls[c].pc = "probe" /\ calls'[c].pc # "probe") =>
                rateLimits' = rateLimits ]_vars

\* a call denied by its probe while the scope's counter stands at the limit
C14_Witness ==
    \E c \in Callers :
        /\ calls[c].pc = "returned"
        /\ calls[c].outcome = "probe"
        /\ ~calls[c].status.allowed
        /\ rateLimits[calls[c].key].count = calls[c].limit
        /\ calls[c].status.resetAt
               = rateLimits[calls[c].key].windowStart + RATE_LIMIT_WINDOW_MS

\* d = max(1, ceil(ms / 1000)), said without division
IsDelaySeconds(d, ms) ==
    /\ d >= 1
    /\ ms <= 1000 => d = 1
    /\ ms > 1000 => (d - 1) * 1000 < ms /\ ms <= d * 1000

\* C15: on every denial the Retry-After header is a delay in whole seconds,
\* max(1, ceil((resetAt - now) / 1000)) for the reported scope's resetAt: never
\* less than 1, also when resetAt <= now, and never an epoch timestamp (it is
\* at most the window's length).
C15_RetryAfterIsDelaySeconds ==
    \A c \in SeqClients :
        (requests[c].pc = "done" /\ ~requests[c].ok) =>
            LET r == requests[c]
                checked == {r.ipResult} \cup
                           (IF r.token = NoToken THEN {} ELSE {r.keyResult})
            IN  /\ r.headers.retryAfter # Undefined
                /\ r.headers.retryAfter >= 1
                /\ r.headers.retryAfter * 1000 <= RATE_LIMIT_WINDOW_MS
                /\ r.headers.reset = r.headers.retryAfter
                /\ \E scope \in checked :
                       /\ ~scope.allowed
                       /\ ReportsScope(r.headers, scope)
                       /\ IsDelaySeconds(r.headers.retryAfter,
                                         scope.resetAt - r.answeredAt)

\* a denial answered after the reported window had ended: Retry-After is 1
C15_Witness ==
    \E c \in SeqClients :
        /\ requests[c].pc = "done"
        /\ requests[c].status = 429
        /\ ~requests[c].ipResult.allowed
        /\ requests[c].ipResult.resetAt <= requests[c].answeredAt
        /\ requests[c].headers.retryAfter = 1

\* a denial answered 1001 ms before the window's end: Retry-After is 2
C15_WitnessCeil ==
    \E c \in SeqClients :
        /\ requests[c].pc = "done"
        /\ requests[c].status = 429
        /\ ~requests[c].ipResult.allowed
        /\ requests[c].ipResult.resetAt = requests[c].answeredAt + 1001
        /\ requests[c].headers.retryAfter = 2

(***************************************************************************)
(* The client address                                                      *)
(***************************************************************************)
\* the settings of TRUST_FORWARDED_IPS that enable the forwarded headers
EnabledTrustEnvs == {Str_1, <<"T", "R", "U", "E">>, <<" ", "Y", "e", "s", " ">>}

UnknownScope == <<"ip", Str_unknown>>
CfScope == <<"ip", <<"1", ".", "1">>>>

\* C16: with cf-connecting-ip absent and TRUST_FORWARDED_IPS not enabled, the
\* request resolves to no address and is rate-checked on the scope ip:unknown,
\* whatever x-real-ip, x-forwarded-for and fly-client-ip hold: it is never
\* failed, and no counter other than ip:unknown and the cf-connecting-ip one
\* is ever touched.
C16_UntrustedForwardedSharesUnknown ==
    trustEnv \notin EnabledTrustEnvs =>
        /\ \A k \in ResolvedScopes \ {UnknownScope, CfScope} :
               rateLimits[k] = NoRateLimit
        /\ \A c \in SeqClients :
               (requests[c].pc # "idle" /\ reqHeaders.cf = Null) =>
                   /\ requests[c].ip = Null
                   /\ calls[c].key = UnknownScope
                   /\ calls[c].limit = RATE_LIMITS[requests[c].kind].ip
                   /\ requests[c].pc \in {"ip", "done"}
                   /\ requests[c].pc = "done" =>
                          /\ requests[c].ipResult = calls[c].result
                          /\ requests[c].ipResult.limit = calls[c].limit

\* the second of two allowed requests, this one with all three forwarded
\* headers set, has been answered and ip:unknown has counted both
C16_Witness ==
    /\ trustEnv = <<"0">>
    /\ reqHeaders.cf = Null
    /\ reqHeaders.realIp # Null
    /\ reqHeaders.forwardedFor # Null
    /\ reqHeaders.flyClientIp # Null
    /\ requests["c1"].pc = "done"
    /\ requests["c1"].ok
    /\ rateLimits[UnknownScope].count = 2
    /\ served[Null].n = 2

(***************************************************************************)
(* Properties of the maintenance jobs                                      *)
(***************************************************************************)
\* C30: after upsertSkillBadgeRecordInternal(skillId, kind, byUserId, at) the
\* skill's badges[kind] is [byUserId, at], whether the call inserted a
\* skillBadges row (inserted = true) or found one (inserted = false, no
\* second row).
C30_BadgesInSyncAfterUpsert ==
    dbOut.op = "upsertSkillBadgeRecord" =>
        /\ skills[dbOut.args.skillId].badges[dbOut.args.kind] =
               [byUserId |-> dbOut.args.byUserId, at |-> dbOut.args.at]
        /\ Cardinality(BadgeRows(skillBadges, dbOut.args.skillId, dbOut.args.kind)) = 1
        /\ Len(skillBadges) = dbOut.rowsBefore + (IF dbOut.inserted THEN 1 ELSE 0)

\* the part of C30 about the table: one row per (skillId, kind), and a
\* second call inserts none
BadgeRowsUnique ==
    dbOut.op = "upsertSkillBadgeRecord" =>
        /\ Cardinality(BadgeRows(skillBadges, dbOut.args.skillId, dbOut.args.kind)) = 1
        /\ Len(skillBadges) = dbOut.rowsBefore + (IF dbOut.inserted THEN 1 ELSE 0)

\* the audit entries of the cleanup about one skill
BackfillEntries(logs, skillId) ==
    SelectSeq(logs, LAMBDA e : e.action = EMPTY_BACKFILL_ACTION
                               /\ e.targetType = "skill" /\ e.targetId = skillId)

\* C24: a step of the sweeps leaves a skill whose softDeletedAt is set as it
\* is and adds no 'skill.delete.empty.backfill' audit entry for it, whether
\* the sweep skips it or calls applyEmptySkillCleanupInternal on it; and
\* whatever sweeps have run and overlapped, a skill has at most one such entry.
C24_CleanupNeverDeletesTwice ==
    [][\A id \in Range(SkillOrder) :
          /\ skills[id].softDeletedAt # Undefined
                => /\ skills'[id] = skills[id]
                   /\ BackfillEntries(auditLogs', id) = BackfillEntries(auditLogs, id)
          /\ Len(BackfillEntries(auditLogs', id)) <= 1]_vars

\* a sweep called the mutation on a skill another sweep had deleted since the
\* page was read: the mutation answered deleted: false, the skill has its one
\* audit entry
C24_Witness ==
    \E j \in JobIds :
        /\ sweeps[j].kind = "cleanup"
        /\ sweeps[j].last.mutated
        /\ sweeps[j].totals.skillsDeleted = sweeps[j].last.totalsBefore.skillsDeleted
        /\ Len(BackfillEntries(auditLogs, sweeps[j].last.skillId)) = 1
        /\ skills[sweeps[j].last.skillId].softDeletedAt # Undefined

\* C25: whatever nomination sweeps have run and overlapped, a user has at
\* most one 'user.ban.nomination.empty-skill-spam' audit entry; after a call
\* of nominateUserForEmptySkillSpamInternal the user has exactly one, and the
\* call returned created = true exactly when it found none.
C25_NominationsDeduplicated ==
    /\ \A u \in MaintUsers : Cardinality(NominationEntries(auditLogs, u)) <= 1
    /\ dbOut.op = "nominateUserForEmptySkillSpam"
          => /\ Cardinality(NominationEntries(auditLogs, dbOut.userId)) = 1
             /\ dbOut.created = (dbOut.entriesBefore = 0)

\* two sweeps have nominated the same user: the later call found the entry
C25_Witness ==
    /\ dbOut.op = "nominateUserForEmptySkillSpam"
    /\ ~dbOut.created
    /\ \E j, k \in JobIds :
           /\ j # k
           /\ sweeps[j].kind = "nominate"
           /\ sweeps[k].kind = "nominate"
           /\ sweeps[j].totals.nominationsCreated = 1
           /\ sweeps[k].totals.nominationsExisting = 1
           /\ sweeps[k].runs = 1

\* the skills of an owner the cleanup has soft-deleted
BackfillDeleted(owner) ==
    {id \in Range(SkillOrder) :
        /\ skills[id].ownerUserId = owner
        /\ skills[id].softDeletedAt # Undefined
        /\ skills[id].moderationReason = EMPTY_BACKFILL_REASON}

ScanFinished(j) ==
    /\ sweeps[j].kind = "nominate"
    /\ sweeps[j].pc = "done"
    /\ sweeps[j].result.isDone

Nominated(j) ==
    \A u \in MaintUsers :
        Cardinality(BackfillDeleted(u)) >= sweeps[j].nominationThreshold
            => NominationEntries(auditLogs, u) # {}

\* C26: once a scan of nominateEmptySkillSpammers has reached the end of the
\* skills table, in the invocation that started it or in one resumed from
\* the cursor returned, every owner with at least nominationThreshold skills
\* soft-deleted with reason 'quality.empty.backfill' has a ban-nomination
\* audit entry.
C26_FinishedScanNominates ==
    \A j \in JobIds : ScanFinished(j) => Nominated(j)

\* the same of a scan that went through the table in one invocation
SingleInvocationNominates ==
    \A j \in JobIds : ScanFinished(j) /\ sweeps[j].startCursor = 0 => Nominated(j)

\* a single invocation has nominated an owner
SingleInvocationNominated ==
    \E j \in JobIds :
        /\ ScanFinished(j)
        /\ sweeps[j].startCursor = 0
        /\ sweeps[j].totals.nominationsCreated = 1

\* the patch of applyEmptySkillCleanupInternal on a skill not soft-deleted
SoftDeletePatch(before, after) ==
    /\ before.softDeletedAt = Undefined
    /\ \E at \in SweepTimes :
           after = [before EXCEPT !.softDeletedAt = at,
                                  !.moderationStatus = "hidden",
                                  !.moderationReason = EMPTY_BACKFILL_REASON]

IsPrefix(s, t) == Len(s) <= Len(t) /\ SubSeq(t, 1, Len(s)) = s

\* C27: no step of the cleanup sweep or of the nomination sweep changes a
\* user record; a step leaves each skill as it is or soft-deletes it, and
\* leaves the audit log as it is or appends entries to it.
C27_SweepsNeverTouchUsers ==
    [][/\ users' = users
       /\ \A id \in Range(SkillOrder) :
              skills'[id] = skills[id] \/ SoftDeletePatch(skills[id], skills'[id])
       /\ IsPrefix(auditLogs, auditLogs')
       /\ skillBadges' = skillBadges]_vars

\* the cleanup has soft-deleted the skills of an owner and the nomination
\* sweep has nominated that owner, who is not banned
C27_Witness ==
    \E u \in MaintUsers :
        /\ BackfillDeleted(u) # {}
        /\ Len(BackfillEntries(auditLogs, CHOOSE id \in BackfillDeleted(u) : TRUE)) = 1
        /\ NominationEntries(auditLogs, u) # {}
        /\ users[u] = ActiveUser

\* the counter a sweep keeps for a dependency failure: the summary backfill
\* has none for a missing version document and counts it as a missing latest
\* version
SkipCounter(kind, outcome) ==
    IF kind = "summaries" /\ outcome = "missingVersionDoc"
    THEN "missingLatestVersion" ELSE outcome

\* C28: when the item a sweep processed last had a dependency failure (no
\* latest version, no version document, no readme, no storage blob), the
\* sweep called no mutation for it, its totals are those before the item with
\* skillsScanned and the failure's skip counter one higher, and the sweep
\* goes on to the next item, the next page or its return.
C28_DependencyFailureIsCounted ==
    \A j \in JobIds :
        LET job == sweeps[j]
        IN  job.last.outcome \in DependencyFailures
               => /\ ~job.last.mutated
                  /\ job.totals =
                        [job.last.totalsBefore EXCEPT
                            !.skillsScanned = @ + 1,
                            ![SkipCounter(job.kind, job.last.outcome)] = @ + 1]
                  /\ job.pc \in {"items", "page", "done"}

\* a cleanup has met a missing storage blob on the first skill and then
\* deleted the next one
C28_Witness ==
    \E j \in JobIds :
        /\ sweeps[j].kind = "cleanup"
        /\ sweeps[j].last.totalsBefore.missingStorageBlob = 1
        /\ sweeps[j].last.totalsBefore.skillsScanned = 1
        /\ sweeps[j].last.outcome = "reject"
        /\ sweeps[j].last.mutated

\* what a sweep counts as to patch or to delete
PatchCount(kind, totals) ==
    CASE kind = "cleanup" -> totals.emptyDetected
      [] kind = "summaries" -> totals.skillsPatched + totals.versionsPatched
      [] kind = "fingerprints" -> totals.versionsPatched + totals.fingerprintsInserted
      [] OTHER -> 0

\* C29: a step of a sweep running with dryRun leaves every table as it is
\* and the sweep has called no mutation; an item it would have patched or
\* deleted is counted all the same.
C29_DryRunWritesNothing ==
    [][\A j \in JobIds :
          LET job == sweeps'[j]
          IN  job.dryRun
                 => /\ <<skills, skillVersions, skillVersionFingerprints, skillBadges,
                          auditLogs, users>>' =
                       <<skills, skillVersions, skillVersionFingerprints, skillBadges,
                         auditLogs, users>>
                    /\ job.mutations = 0
                    /\ job.last.outcome \in {"reject", "patch"}
                          => /\ ~job.last.mutated
                             /\ PatchCount(job.kind, job.totals)
                                   > PatchCount(job.kind, job.last.totalsBefore)]_vars

\* a dry run has gone through the table and counted something to patch or
\* delete
C29_Witness ==
    \E j \in JobIds :
        /\ sweeps[j].dryRun
        /\ sweeps[j].pc = "done"
        /\ sweeps[j].result.isDone
        /\ sweeps[j].mutations = 0
        /\ PatchCount(sweeps[j].kind, sweeps[j].totals) > 0

\* the same of each sweep
DryRunCounted(kind) ==
    \E j \in JobIds :
        /\ sweeps[j].kind = kind
        /\ sweeps[j].dryRun
        /\ sweeps[j].pc = "done"
        /\ PatchCount(kind, sweeps[j].totals) > 0

DryRunCountedSummaries == DryRunCounted("summaries")
DryRunCountedFingerprints == DryRunCounted("fingerprints")
DryRunCountedCleanup == DryRunCounted("cleanup")

\* the summary backfill has counted a missing version document
SummariesMissingVersionDoc ==
    \E j \in JobIds :
        /\ sweeps[j].kind = "summaries"
        /\ sweeps[j].last.outcome = "missingVersionDoc"

(***************************************************************************)
(* Properties of the admin reclaim                                         *)
(***************************************************************************)
EmbeddingsOf(table, skillId) ==
    {k \in 1..Len(table) : table[k].skillId = skillId}

\* C22: a call of reclaimSlugInternal with transferRootSlugOnly that finds a
\* skill under the slug answers 'ownership_transferred' and leaves the same
\* skill document with only ownerUserId changed, to the rightful owner;
\* every embedding of the skill has the rightful owner as ownerId and the
\* other embeddings are as they were; no reservation of the slug is active;
\* nothing is scheduled.
C22_TransferInPlace ==
    [][reclaimOut'.calls # reclaimOut.calls
          => LET call == reclaimOut'
                 slug == NormalizeSlug(call.args.slug)
                 skillId == SkillBySlug(skills, slug)
                 owner == call.args.rightfulOwnerUserId
             IN  call.args.transferRootSlugOnly /\ skillId # NullId
                    => /\ call.action = "ownership_transferred"
                       /\ skills' = [skills EXCEPT ![skillId].ownerUserId = owner]
                       /\ Len(skillEmbeddings') = Len(skillEmbeddings)
                       /\ \A k \in 1..Len(skillEmbeddings) :
                              skillEmbeddings'[k] =
                                  IF k \in EmbeddingsOf(skillEmbeddings, skillId)
                                  THEN [skillEmbeddings[k] EXCEPT !.ownerId = owner]
                                  ELSE skillEmbeddings[k]
                       /\ listActiveReservedSlugsForSlug(reservedSlugs', slug) = <<>>
                       /\ Len(reservedSlugs') = Len(reservedSlugs)
                       /\ scheduled' = scheduled]_vars

\* the squatter's skill, with two embeddings and the slug reserved, has been
\* handed to the rightful owner
C22_Witness ==
    /\ reclaimOut.action = "ownership_transferred"
    /\ LET before == reclaimOut.before
           slug == NormalizeSlug(reclaimOut.args.slug)
           skillId == SkillBySlug(before.skills, slug)
       IN  /\ before.skills[skillId].ownerUserId # reclaimOut.args.rightfulOwnerUserId
           /\ Cardinality(EmbeddingsOf(before.skillEmbeddings, skillId)) = 2
           /\ listActiveReservedSlugsForSlug(before.reservedSlugs, slug) # <<>>
           /\ skills[skillId].ownerUserId = reclaimOut.args.rightfulOwnerUserId

(***************************************************************************)
(* Properties of the CLI's request helpers                                 *)
(***************************************************************************)
\* the failures the helpers are to retry: 429, 5xx and timeouts
RetriedFailure(outcome) ==
    \/ outcome.kind = "timeout"
    \/ outcome.kind = "response" /\ (outcome.status = 429 \/ outcome.status >= 500)

\* any other status outside 2xx
AbortingFailure(outcome) ==
    /\ outcome.kind = "response"
    /\ outcome.status < 200 \/ (outcome.status >= 300 /\ outcome.status < 500)
    /\ outcome.status # 429

C31_WitnessNotFound ==
    /\ cli.pc = "raised"
    /\ cli.helper = "downloadZip"
    /\ Len(cli.outcomes) = 1
    /\ cli.outcomes[1].status = 404

(***************************************************************************)
(* Properties of the v1 handlers                                           *)
(***************************************************************************)
\* the calls a handler makes besides applyRateLimit
BusinessCalls(trace) == {i \in 1..Len(trace) : trace[i] # "applyRateLimit"}

\* C32: in every handler applyRateLimit is the first call and is made once:
\* no parsing of the body, no authentication, no query, mutation or action
\* comes before it; when it denies, the handler has answered 429 and made no
\* other call.
C32_RateLimitBeforeBusinessLogic ==
    /\ api.trace # <<>> =>
           /\ api.trace[1] = "applyRateLimit"
           /\ \A i \in 2..Len(api.trace) : api.trace[i] # "applyRateLimit"
    /\ api.pc \notin {"idle", "rate"} => api.trace # <<>>
    /\ api.rateOk = "none" => api.trace = <<>>
    /\ api.rateOk = "denied" =>
           /\ api.pc = "done"
           /\ api.response = 429
           /\ BusinessCalls(api.trace) = {}
    /\ api.response = 429 => api.rateOk = "denied"

\* an admin's reclaim request with a token, denied by the limiter
C32_Witness ==
    /\ api.pc = "done"
    /\ api.rateOk = "denied"
    /\ api.req.handler = "usersPostRouterV1Handler"
    /\ api.req.segments = <<"reclaim">>
    /\ api.req.adminOk
    /\ api.req.payloadOk
    /\ api.req.payload.slugs = 2
    /\ api.req.payload.handle = "alice"

\* a publish request the limiter let pass, answered 200
C32_WitnessPassed ==
    /\ api.pc = "done"
    /\ api.rateOk = "ok"
    /\ api.req.handler = "publishSoulV1Handler"
    /\ api.response = 200
    /\ api.trace = <<"applyRateLimit", "requireApiTokenUser", "request.json",
                     "publishSoulVersionForUser">>

\* a request to POST /api/v1/users/restore or /api/v1/users/reclaim
AdminRequest ==
    /\ api.req.handler = "usersPostRouterV1Handler"
    /\ api.req.segments \in {<<"restore">>, <<"reclaim">>}

\* the reclaim mutation and the restore action
AdminWrites(trace) ==
    {i \in 1..Len(trace) :
        trace[i] \in {"runMutation:skills.reclaimSlugInternal",
                      "runAction:githubRestore.restoreUserSkillsFromBackup"}}

\* runQuery, runMutation and runAction calls
DbCalls(trace) ==
    {i \in 1..Len(trace) :
        trace[i] \notin {"applyRateLimit", "parseJsonPayload", "requireApiTokenUser"}}

C37_WitnessAdmin ==
    /\ AdminRequest
    /\ api.pc = "done"
    /\ api.response = 200
    /\ Cardinality(AdminWrites(api.trace)) = 2

OnePageOneSuccessor(e) ==
    /\ e.pages = 1
    /\ e.isDone => e.successors = <<>>
    /\ ~e.isDone =>
           /\ Len(e.successors) = 1
           /\ e.successors[1].fn = e.job.fn
           /\ e.successors[1].cursor = e.continueCursor
           /\ e.successors[1].cursor # 0
           /\ e.successors[1].cursor > e.job.cursor

ChainSafe ==
    /\ \A k \in 1..Len(batch.log) : OnePageOneSuccessor(batch.log[k])
    /\ Len(batch.queue) <= 1

\* the chain has ended: the last invocation's page was done, nothing is
\* scheduled and nothing runs
ChainFinished ==
    /\ batch.log # <<>>
    /\ batch.log[Len(batch.log)].isDone
    /\ batch.queue = <<>>
    /\ batch.running = NoScheduled

\* C34: every invocation of a self-rescheduling batch job processes one page
\* and schedules exactly one successor, carrying the continuation cursor, if
\* and only if the page is not done; the chain eventually reaches isDone and
\* then schedules nothing further, and no successor restarts from the
\* beginning.
C34_OnePagePerInvocationUntilDone == []ChainSafe /\ <>[]ChainFinished

\* a chain of three invocations of the summary job has ended
C34_Witness ==
    /\ ChainFinished
    /\ Len(batch.log) = 3
    /\ batch.log[1].job.fn = SummaryJobFn
    /\ batch.log[2].job.cursor = batch.log[1].continueCursor

\* a chain of the embedding map backfill has ended after more than one page
C34_WitnessEmbeddingMap ==
    /\ ChainFinished
    /\ Len(batch.log) = 3
    /\ batch.log[1].job.fn = EmbeddingMapFn
    /\ batch.embeddingSkillMap = 1..batch.rows

\* a chain scheduled by scheduleNextBatchIfNeeded has ended
C34_WitnessHelper ==
    /\ ChainFinished
    /\ Len(batch.log) > 1
    /\ batch.log[1].job.fn = PagedJobFn

(***************************************************************************)
(* Properties of the limiter: what a rejected request leaves behind        *)
(***************************************************************************)
Rejected(c) == requests[c].pc = "done" /\ requests[c].status = 429

\* C35: a request that applyRateLimit rejects with 429 consumes no budget in
\* any scope: the counters of its ip scope and of its credential scope are
\* the same after the rejected request as before it.
C35_RejectedConsumesNothing ==
    \A c \in SeqClients :
        Rejected(c) =>
            CountersOf(requests[c].ip, requests[c].token) = requests[c].before

\* a request was rejected by the ip scope's probe while carrying a token
C35_WitnessRejectedWithToken ==
    \E c \in SeqClients :
        /\ Rejected(c)
        /\ requests[c].token # NoToken
        /\ ~requests[c].ipResult.allowed

(***************************************************************************)
(* Properties of the ledger: a delete after a reclaim                      *)
(***************************************************************************)
\* the last call was a delete for an owner other than the one a reclaim had
\* pointed the slug's active reservation i at
DeleteAfterReclaim(i) ==
    /\ ledgerOut.op = "delete"
    /\ i \in PriorActive \cap ledgerOut.reclaimed
    /\ ledgerOut.before[i].originalOwnerUserId # ledgerOut.params.originalOwnerUserId

\* C36: after a reclaim has pointed the active reservation of a slug at
\* rightful owner R, reserveSlugForHardDeleteFinalize for another owner S
\* leaves that reservation as it was (held by R, same deletedAt and
\* expiresAt, still active), creates no reservation for S, and S is still
\* rejected when creating the slug before the reservation expires.
C36_DeleteKeepsReclaimedReservation ==
    \A i \in DOMAIN ledgerOut.before :
        DeleteAfterReclaim(i) =>
            /\ reservedSlugs[i] = ledgerOut.before[i]
            /\ NowActive = {i}
            /\ Len(reservedSlugs) = Len(ledgerOut.before)
            /\ \A t \in Times :
                   t < reservedSlugs[i].expiresAt =>
                       CooldownRejects(reservedSlugs,
                           [slug |-> ledgerOut.params.slug,
                            userId |-> ledgerOut.params.originalOwnerUserId,
                            now |-> t])

\* a delete for another owner found the reservation that a reclaim had pointed
\* at the rightful owner, not yet expired at the delete
C36_Witness ==
    \E i \in DOMAIN ledgerOut.before :
        /\ DeleteAfterReclaim(i)
        /\ ledgerOut.params.deletedAt < ledgerOut.before[i].expiresAt
        /\ ledgerOut.params.expiresAt # ledgerOut.before[i].expiresAt

\* the other owner's creation of the slug was rejected on a reclaimed
\* reservation
C36_WitnessRejected ==
    /\ ledgerOut.op = "create"
    /\ ~ledgerOut.ok
    /\ \E i \in NowActive \cap ledgerOut.reclaimed :
           reservedSlugs[i].originalOwnerUserId # ledgerOut.params.userId

(***************************************************************************)
(* Properties of the search resolver: deleted, missing and highlighted     *)
(***************************************************************************)
\* the entry's item exists and is not soft-deleted
LiveEntry(e) == e.skill \in SkillIds /\ Skills[e.skill].softDeletedAt = 0

\* C38: no result of searchSkills or searchSouls refers to a soft-deleted
\* item or to a missing one: in every round every confirmed entry has an
\* item that is not soft-deleted, and so has every returned entry.
C38_NoDeletedOrMissingItem ==
    /\ \A k \in DOMAIN exactMatches : LiveEntry(exactMatches[k])
    /\ \A k \in DOMAIN returned : LiveEntry(returned[k])

\* the rows of block b lie in the last round's window
BlockInWindow(b) == \E k \in DOMAIN scoreById : RowBlock(scoreById[k]._id) = b

\* a search that widened its window returned results although the last
\* window held the embeddings of a soft-deleted skill that matches the query
\* or of a skill that no longer exists
C38_Witness ==
    /\ spc = "done"
    /\ returned # <<>>
    /\ searchCalls >= 2
    /\ \E b \in DOMAIN store :
           /\ store[b].kind.skillId = "remindMeDeleted"
           /\ BlockInWindow(b)

\* the same with a skill that no longer exists
C38_WitnessMissing ==
    /\ spc = "done"
    /\ returned # <<>>
    /\ \E b \in DOMAIN store :
           /\ store[b].kind.skillId = "gone"
           /\ store[b].kind.visibility = "latest"
           /\ BlockInWindow(b)

\* the entry's item is a highlighted one
HighlightedEntry(e) == e.skill \in SkillIds /\ Skills[e.skill].batch = "highlighted"

\* the rows of the last window whose item is live, highlighted and holds
\* every query token
HighlightedMatches ==
    SelectSeq(scoreById, LAMBDA r :
        LET e == [skill |-> EmbeddingGet(store, r._id).skillId]
        IN  /\ LiveEntry(e)
            /\ HighlightedEntry(e)
            /\ ContainsEveryToken(tokenize(Trim(args.query)), EntryParts(e)))

\* C39: with highlightedOnly, every round confirms highlighted entries only
\* and every returned result has batch = 'highlighted'; the loop stops only
\* when the highlighted matches of the window reach the limit or the window
\* was not full, whatever the number of other matches.
C39_HighlightedOnlyBeforeConfirmation ==
    args.highlightedOnly =>
        /\ \A k \in DOMAIN exactMatches : HighlightedEntry(exactMatches[k])
        /\ \A k \in DOMAIN returned : HighlightedEntry(returned[k])
        /\ spc \in {"return", "done"} /\ searchCalls >= 1 =>
               \/ Len(HighlightedMatches) >= limit
               \/ Len(scoreById) < candidateLimit

\* a first window full of matches that are not highlighted did not stop the
\* search: it widened and returned `limit` highlighted results
C39_Witness ==
    /\ args.highlightedOnly
    /\ spc = "done"
    /\ searchCalls = 2
    /\ Len(returned) = limit
    /\ limit > 0
    /\ \E b \in DOMAIN store :
           /\ store[b].kind.skillId = "remindMePlain"
           /\ store[b].len >= windows[1]
           /\ \A c \in DOMAIN store : store[c].score <= store[b].score

=============================================================================
